---- MODULE Spec2Model ----
(***************************************************************************)
(* Graph / cluster / spine engine of the interpreter package.              *)
(*                                                                         *)
(* Numbers.  Node weights and corpus contributions are the floats of the   *)
(* source restricted to whole values.  Edge weights and edge_min are kept  *)
(* in millionths (Micro), so that REL_STRENGTH (tenths), evidence_factor   *)
(* and entropy_factor (hundredths) and the division by 10.0 multiply out   *)
(* exactly.  Entropies are kept in hundredths.  Seed scores are kept in    *)
(* thirds (the only fraction in seed_score is deg / 3.0).                  *)
(***************************************************************************)
EXTENDS Integers, Sequences, FiniteSets, TLC

VARIABLES
    g,             \* InteractionGraph: [nodes, adj, entropy_by_corpus]
    params,        \* the parameter records the caller passes
    pc,            \* position of the driver
    calls,         \* number of graph calls made so far
    essence_of,    \* corpus id -> the essence of that corpus (one per corpus)
    hist,          \* corpus ids in the order add_essence_to_graph ingested them
    prev_g,        \* the nodes before the latest add_essence_to_graph call
    before_first,  \* corpus id -> the nodes before its first ingestion
    after_first,   \* corpus id -> the nodes after its first ingestion
    seeds,         \* result of select_seeds
    clusters,      \* clusters grown so far / the argument of merge_clusters
    cluster_list,  \* merge_clusters' working list
    passes,        \* merge_clusters: iterations of the while loop completed
    spines,        \* the argument of choose_spines_for_output
    chosen,        \* the result of choose_spines_for_output
    lengths,       \* len(cluster_list) at the start and after every pass of merge_clusters
    lineage,       \* for each entry of cluster_list, the input positions it descends from
    answer,        \* answer_lines and context of main
    raised         \* the exceptions raised so far by calls the caller went on after

vars == <<g, params, pc, calls, essence_of, hist, prev_g, before_first,
          after_first, seeds, clusters, cluster_list, passes, spines, chosen,
          lengths, lineage, answer, raised>>

(***************************************************************************)
(* Small helpers: dicts are functions, lists are sequences.                *)
(***************************************************************************)
EmptyMap == [x \in {} |-> 0]

Put(f, k, v) == [x \in (DOMAIN f) \cup {k} |-> IF x = k THEN v ELSE f[x]]

Get(f, k, default) == IF k \in DOMAIN f THEN f[k] ELSE default

Min(a, b) == IF a <= b THEN a ELSE b

Max(a, b) == IF a >= b THEN a ELSE b

Range(s) == {s[i] : i \in 1..Len(s)}

Take(s, n) == SubSeq(s, 1, Min(n, Len(s)))

RECURSIVE SumOver(_, _)
SumOver(f, S) ==
    IF S = {} THEN 0
    ELSE LET x == CHOOSE y \in S : TRUE IN f[x] + SumOver(f, S \ {x})

SumValues(f) == SumOver(f, DOMAIN f)

SeqsUpTo(S, n) == UNION {[1..k -> S] : k \in 0..n}

(***************************************************************************)
(* types.py                                                                *)
(***************************************************************************)
TERM == "term"
CONCEPT == "concept"
MOTIF == "motif"
TENSION == "tension"
BODY_SEED == "body_seed"
NodeType == {TERM, CONCEPT, MOTIF, TENSION, BODY_SEED}

SUPPORTS == "supports"
OVERLAPS == "overlaps"
ANALOGOUS == "analogous"
CONTRASTS == "contrasts"
FRAMES == "frames"
PART_OF == "part_of"
CAUSAL == "causal"
EdgeRel == {SUPPORTS, OVERLAPS, ANALOGOUS, CONTRASTS, FRAMES, PART_OF, CAUSAL}

GraphNode(id, type, weight, support, prov, payload) ==
    [node_id |-> id, type |-> type, weight |-> weight,
     corpus_support |-> support, provenance |-> prov, payload_ref |-> payload]

GraphEdge(src, dst, rel, weight, evidence) ==
    [src |-> src, dst |-> dst, rel |-> rel, weight |-> weight,
     evidence_corpora |-> evidence]

(***************************************************************************)
(* weights.py                                                              *)
(***************************************************************************)
Micro == 1000 * 1000

MOMENTUM_CAP == 10

\* REL_STRENGTH in tenths
REL_STRENGTH ==
    [r \in EdgeRel |->
        CASE r = SUPPORTS -> 10
          [] r = OVERLAPS -> 9
          [] r = ANALOGOUS -> 7
          [] r = CONTRASTS -> 7
          [] r = FRAMES -> 6
          [] r = PART_OF -> 6
          [] r = CAUSAL -> 5]

\* evidence_factor in hundredths
evidence_factor(corpus_count) ==
    IF corpus_count <= 1 THEN 100
    ELSE IF corpus_count = 2 THEN 120
    ELSE IF corpus_count = 3 THEN 135
    ELSE 145

\* entropy_factor in hundredths; entropies in hundredths, hot = (a + b) / 2.0
entropy_factor(edge_rel, entropy_src, entropy_dst, cross_corpus_confirmed) ==
    IF edge_rel = ANALOGOUS /\ entropy_src + entropy_dst >= 2 * 70
       /\ ~cross_corpus_confirmed
    THEN 85 ELSE 100

cap_momentum(m) == Min(m, MOMENTUM_CAP)

(***************************************************************************)
(* graph.py                                                                *)
(***************************************************************************)
EmptyGraph == [nodes |-> <<>>, adj |-> EmptyMap, entropy_by_corpus |-> EmptyMap]

NodeIds(gr) == {gr.nodes[i].node_id : i \in 1..Len(gr.nodes)}

\* position of an id in the (insertion ordered) node dict; 0 when absent
NodeIndex(gr, id) ==
    IF id \in NodeIds(gr)
    THEN CHOOSE i \in 1..Len(gr.nodes) : gr.nodes[i].node_id = id
    ELSE 0

NodeOf(gr, id) == gr.nodes[NodeIndex(gr, id)]

ensure_node_dropping_support(gr, node) ==
    IF node.node_id \notin NodeIds(gr)
    THEN [gr EXCEPT !.nodes = Append(@, node),
                    !.adj = Put(@, node.node_id, <<>>)]
    ELSE LET i == NodeIndex(gr, node.node_id)
             existing == gr.nodes[i]
         IN [gr EXCEPT !.nodes[i] =
                [existing EXCEPT
                    !.weight = @ + node.weight,
                    !.provenance = @ \o node.provenance]]

ensure_node(gr, node) ==
    IF node.node_id \notin NodeIds(gr)
    THEN [gr EXCEPT !.nodes = Append(@, node),
                    !.adj = Put(@, node.node_id, <<>>)]
    ELSE LET i == NodeIndex(gr, node.node_id)
             existing == gr.nodes[i]
             merged ==
                [k \in (DOMAIN existing.corpus_support)
                        \cup (DOMAIN node.corpus_support) |->
                    Get(existing.corpus_support, k, 0)
                    + Get(node.corpus_support, k, 0)]
         IN [gr EXCEPT !.nodes[i] =
                [existing EXCEPT
                    !.weight = @ + node.weight,
                    !.corpus_support = merged,
                    !.provenance = @ \o node.provenance]]

\* add_edge that stores the forward record only
add_edge_one_way(gr, edge) ==
    [gr EXCEPT !.adj = [gr.adj EXCEPT ![edge.src] = Append(@, edge)]]

\* both endpoints must be keys of adj (the source indexes adj directly)
add_edge(gr, edge) ==
    LET a1 == [gr.adj EXCEPT ![edge.src] = Append(@, edge)]
        a2 == [a1 EXCEPT ![edge.dst] =
                  Append(@, GraphEdge(edge.dst, edge.src, edge.rel, edge.weight,
                                      edge.evidence_corpora))]
    IN [gr EXCEPT !.adj = a2]

neighbors(gr, node_id) == Get(gr.adj, node_id, <<>>)

\* node_type that takes an absent id for a concept
node_type_guessing(gr, node_id) ==
    IF node_id \in NodeIds(gr) THEN NodeOf(gr, node_id).type ELSE CONCEPT

None == "None"

node_type(gr, node_id) ==
    IF node_id \in NodeIds(gr) THEN NodeOf(gr, node_id).type ELSE None

(***************************************************************************)
(* builder.py                                                              *)
(***************************************************************************)
TermId(term) == "T:" \o term

ConceptId(concept_id) == "C:" \o concept_id

TermNode(essence, wt) ==
    GraphNode(TermId(wt.term), TERM, cap_momentum(wt.weight),
              Put(EmptyMap, essence.corpus_id, wt.weight),
              essence.provenance,
              <<essence.corpus_id, "term", wt.term>>)

RECURSIVE EnsureTerms(_, _, _)
EnsureTerms(gr, essence, i) ==
    IF i > Len(essence.key_terms) THEN gr
    ELSE EnsureTerms(ensure_node(gr, TermNode(essence, essence.key_terms[i])),
                     essence, i + 1)

\* concept_weight: the dict summing the listed weights per concept id
concept_weight(essence) ==
    LET kc == essence.key_concepts
        ids == {kc[i].concept_id : i \in 1..Len(kc)}
        listed == [i \in 1..Len(kc) |-> kc[i].weight]
    IN [id \in ids |->
           SumOver(listed, {i \in 1..Len(kc) : kc[i].concept_id = id})]

ConceptNodeOf(essence, c) ==
    LET w == Get(concept_weight(essence), c.concept_id, c.weight)
    IN GraphNode(ConceptId(c.concept_id), CONCEPT, cap_momentum(w),
                 Put(EmptyMap, essence.corpus_id, w),
                 essence.provenance,
                 <<essence.corpus_id, "concept", c.concept_id>>)

\* the second loop runs over every listed concept, not over the distinct ids
RECURSIVE EnsureConcepts(_, _, _)
EnsureConcepts(gr, essence, i) ==
    IF i > Len(essence.key_concepts) THEN gr
    ELSE EnsureConcepts(
             ensure_node(gr, ConceptNodeOf(essence, essence.key_concepts[i])),
             essence, i + 1)

TOP_TERMS == 10

TOP_CONCEPTS == 6

\* w = rs * (em / 10.0) * ef * entf, in millionths
SupportWeight(essence, wt, c) ==
    LET rs == REL_STRENGTH[SUPPORTS]
        em == cap_momentum(Min(wt.weight, c.weight))
        ef == evidence_factor(1)
        entf == entropy_factor(SUPPORTS, essence.entropy, essence.entropy, FALSE)
    IN rs * em * ef * entf

EdgeAdmittedAlways(w, edge_min) == w >= 0

\* w >= edge_min * 0.6
EdgeAdmitted(w, edge_min) == 10 * w >= 6 * edge_min

RECURSIVE AddSupportEdges(_, _, _, _, _)
AddSupportEdges(gr, essence, edge_min, i, j) ==
    LET terms == Take(essence.key_terms, TOP_TERMS)
        concepts == Take(essence.key_concepts, TOP_CONCEPTS)
    IN IF i > Len(terms) THEN gr
       ELSE IF j > Len(concepts)
       THEN AddSupportEdges(gr, essence, edge_min, i + 1, 1)
       ELSE LET wt == terms[i]
                c == concepts[j]
                w == SupportWeight(essence, wt, c)
                g1 == IF EdgeAdmitted(w, edge_min)
                      THEN add_edge(gr, GraphEdge(TermId(wt.term),
                                                  ConceptId(c.concept_id),
                                                  SUPPORTS, w,
                                                  <<essence.corpus_id>>))
                      ELSE gr
            \* the test always holds; it has g1 computed before the loop goes on
            IN IF DOMAIN g1 = DOMAIN gr
               THEN AddSupportEdges(g1, essence, edge_min, i, j + 1)
               ELSE gr

add_essence_to_graph(gr, essence, edge_min) ==
    LET g0 == [gr EXCEPT !.entropy_by_corpus =
                  Put(@, essence.corpus_id, essence.entropy)]
        g1 == EnsureTerms(g0, essence, 1)
        g2 == EnsureConcepts(g1, essence, 1)
    IN AddSupportEdges(g2, essence, edge_min, 1, 1)

(***************************************************************************)
(* Ingestion: the driver feeds one essence per corpus to the builder       *)
(* (interpreter_v1.main), here any number of times and in any order.       *)
(***************************************************************************)
MaxIngest == 3

MaxTerms == 1

MaxConcepts == 2

Corpora == {"A", "B"}

TermNames == {"love"}

ConceptIds == {"love", "fear"}

TermWeights == {7}

ConceptWeights == {5, 7}

\* entropy of each corpus's matched evidence, in hundredths
EntropyOf == [c \in Corpora |-> IF c = "A" THEN 30 ELSE 80]

DocOf == [c \in Corpora |-> IF c = "A" THEN "docA" ELSE "docB"]

\* ClusterParams.edge_min (0.55), in millionths
DefaultEdgeMin == 55 * 10000

WeightedTerms == [term : TermNames, weight : TermWeights]

WeightedConcepts == [concept_id : ConceptIds, weight : ConceptWeights]

\* the essence producer hands over lists sorted by descending weight
SortedDesc(s) == \A i \in 1..(Len(s) - 1) : s[i].weight >= s[i + 1].weight

Essences(c) ==
    {[corpus_id |-> c, key_terms |-> kt, key_concepts |-> kc,
      entropy |-> EntropyOf[c], provenance |-> <<DocOf[c]>>] :
        kt \in {s \in SeqsUpTo(WeightedTerms, MaxTerms) : SortedDesc(s)},
        kc \in {s \in SeqsUpTo(WeightedConcepts, MaxConcepts) : SortedDesc(s)}}

\* what is remembered of an earlier graph: weight and corpus_support per node id
Snapshot(gr) ==
    [id \in NodeIds(gr) |->
        [weight |-> NodeOf(gr, id).weight,
         corpus_support |-> NodeOf(gr, id).corpus_support]]

Count(s, x) == Cardinality({i \in 1..Len(s) : s[i] = x})

Init ==
    /\ g = EmptyGraph
    /\ params = [edge_min |-> DefaultEdgeMin]
    /\ pc = "build"
    /\ calls = 0
    /\ essence_of = EmptyMap
    /\ hist = <<>>
    /\ prev_g = EmptyMap
    /\ before_first = EmptyMap
    /\ after_first = EmptyMap
    /\ seeds = <<>>
    /\ clusters = <<>>
    /\ cluster_list = <<>>
    /\ passes = 0
    /\ spines = <<>>
    /\ chosen = <<>>
    /\ lengths = <<>>
    /\ lineage = <<>>
    /\ answer = <<>>
    /\ raised = <<>>

\* add_essence_to_graph(g, e, edge_min): the first essence of a corpus is any
\* essence; a corpus ingested again brings the same essence.
AddEssence ==
    /\ pc = "build"
    /\ Len(hist) < MaxIngest
    /\ \E c \in Corpora :
         \E e \in (IF c \in DOMAIN essence_of THEN {essence_of[c]} ELSE Essences(c)) :
            LET g1 == add_essence_to_graph(g, e, params.edge_min)
            IN /\ g' = g1
               /\ essence_of' = Put(essence_of, c, e)
               /\ hist' = Append(hist, c)
               /\ prev_g' = Snapshot(g)
               /\ before_first' = IF c \in DOMAIN before_first THEN before_first
                                  ELSE Put(before_first, c, Snapshot(g))
               /\ after_first' = IF c \in DOMAIN after_first THEN after_first
                                 ELSE Put(after_first, c, Snapshot(g1))
    /\ UNCHANGED <<params, pc, calls, seeds, clusters, cluster_list, passes,
                   spines, chosen,
                   lengths, lineage, answer, raised>>

Next == AddEssence

Spec == Init /\ [][Next]_vars

(***************************************************************************)
(* Properties of the builder and of ensure_node.                           *)
(***************************************************************************)
\* weight and per-corpus contribution of a node in a snapshot; 0 when absent
WeightIn(snap, id) == IF id \in DOMAIN snap THEN snap[id].weight ELSE 0

SupportIn(snap, id, c) ==
    IF id \in DOMAIN snap THEN Get(snap[id].corpus_support, c, 0) ELSE 0

\* the same, of the current graph
WeightNow(id) == IF id \in NodeIds(g) THEN NodeOf(g, id).weight ELSE 0

SupportNow(id, c) ==
    IF id \in NodeIds(g) THEN Get(NodeOf(g, id).corpus_support, c, 0) ELSE 0

ListedTerms(e) == {e.key_terms[i].term : i \in 1..Len(e.key_terms)}

ListedConcepts(e) == {e.key_concepts[i].concept_id : i \in 1..Len(e.key_concepts)}

\* the node ids an essence contributes to
Touched(e) ==
    {TermId(t) : t \in ListedTerms(e)} \cup {ConceptId(k) : k \in ListedConcepts(e)}

\* what an essence lists for a term / a concept id: the sum of the listed weights
ListedTermWeight(e, t) ==
    SumOver([i \in 1..Len(e.key_terms) |-> e.key_terms[i].weight],
            {i \in 1..Len(e.key_terms) : e.key_terms[i].term = t})

ListedConceptWeight(e, k) ==
    SumOver([i \in 1..Len(e.key_concepts) |-> e.key_concepts[i].weight],
            {i \in 1..Len(e.key_concepts) : e.key_concepts[i].concept_id = k})

NodesWithId(gr, id) == {i \in 1..Len(gr.nodes) : gr.nodes[i].node_id = id}

IngestedOnce(c) == Count(hist, c) = 1

\* C1: after any sequence of add_essence_to_graph / ensure_node calls every
\* node's weight is at most the momentum cap 10.0 (5 from corpus A and 7 from
\* corpus B end as 10, not 12).
C1_WeightNeverExceedsCap ==
    \A i \in 1..Len(g.nodes) : g.nodes[i].weight <= MOMENTUM_CAP

\* C2: two essences of different corpora that share a term or a concept id,
\* each ingested once in either order, leave exactly one node for that
\* identity whose corpus_support has exactly one entry per contributing corpus,
\* holding what that corpus's essence lists for the identity.
C2_SharedIdentityOneNodePerCorpusEntry ==
    \A a \in Corpora : \A b \in Corpora \ {a} :
        (IngestedOnce(a) /\ IngestedOnce(b)) =>
            /\ \A t \in ListedTerms(essence_of[a]) \cap ListedTerms(essence_of[b]) :
                  /\ Cardinality(NodesWithId(g, TermId(t))) = 1
                  /\ DOMAIN NodeOf(g, TermId(t)).corpus_support = {a, b}
                  /\ \A c \in {a, b} :
                        NodeOf(g, TermId(t)).corpus_support[c]
                            = ListedTermWeight(essence_of[c], t)
            /\ \A k \in ListedConcepts(essence_of[a]) \cap ListedConcepts(essence_of[b]) :
                  /\ Cardinality(NodesWithId(g, ConceptId(k))) = 1
                  /\ DOMAIN NodeOf(g, ConceptId(k)).corpus_support = {a, b}
                  /\ \A c \in {a, b} :
                        NodeOf(g, ConceptId(k)).corpus_support[c]
                            = ListedConceptWeight(essence_of[c], k)

SecondIngestionOf(c) ==
    /\ Len(hist) >= 2
    /\ hist[Len(hist)] = c
    /\ Count(hist, c) = 2

\* C3 as stated: the second ingestion of an essence keeps the node ids and, for
\* every node the essence touches, makes the corpus's contribution and the
\* accumulated weight exactly twice their values after the first ingestion.
C3_SecondIngestionDoublesWeight ==
    \A c \in Corpora :
        SecondIngestionOf(c) =>
            /\ NodeIds(g) = DOMAIN prev_g
            /\ \A id \in Touched(essence_of[c]) :
                  /\ SupportNow(id, c) = 2 * SupportIn(after_first[c], id, c)
                  /\ WeightNow(id) = 2 * WeightIn(after_first[c], id)

\* C3 amended: the second ingestion of an essence keeps the node ids and, for
\* every node the essence touches, makes the corpus's contribution exactly
\* twice its value after the first ingestion and adds to the accumulated weight
\* exactly what the first ingestion added; the weight is twice its value after
\* the first ingestion when no other corpus has contributed to the node.
C3_SecondIngestionAddsSameAgain ==
    \A c \in Corpora :
        SecondIngestionOf(c) =>
            /\ NodeIds(g) = DOMAIN prev_g
            /\ \A id \in Touched(essence_of[c]) :
                  /\ id \in NodeIds(g)
                  /\ SupportNow(id, c) = 2 * SupportIn(after_first[c], id, c)
                  /\ SupportIn(after_first[c], id, c) > 0
                  /\ WeightNow(id) - WeightIn(prev_g, id)
                        = WeightIn(after_first[c], id) - WeightIn(before_first[c], id)
                  /\ (DOMAIN NodeOf(g, id).corpus_support = {c}) =>
                        WeightNow(id) = 2 * WeightIn(after_first[c], id)

\* an essence is ingested a second time and touches a node that another corpus
\* has contributed to as well
C3_Witness ==
    \E c \in Corpora :
        /\ SecondIngestionOf(c)
        /\ \E id \in Touched(essence_of[c]) :
              /\ Cardinality(DOMAIN NodeOf(g, id).corpus_support) = 2
              /\ WeightNow(id) > WeightIn(prev_g, id)
        /\ \E id \in Touched(essence_of[c]) :
              DOMAIN NodeOf(g, id).corpus_support = {c}

\* C4: an essence listing a concept id k >= 1 times, ingested into the empty
\* graph, creates exactly one CONCEPT node for the id; its contribution from
\* that corpus is the sum of the k listed weights and its weight is that sum
\* clamped to the cap.
C4_RepeatedConceptAggregatedOnce ==
    \A c \in Corpora :
        hist = <<c>> =>
            \A k \in ListedConcepts(essence_of[c]) :
                /\ Cardinality(NodesWithId(g, ConceptId(k))) = 1
                /\ NodeOf(g, ConceptId(k)).type = CONCEPT
                /\ NodeOf(g, ConceptId(k)).corpus_support
                      = Put(EmptyMap, c, ListedConceptWeight(essence_of[c], k))
                /\ NodeOf(g, ConceptId(k)).weight
                      = cap_momentum(ListedConceptWeight(essence_of[c], k))

(***************************************************************************)
(* Python's sorted() and list.sort(): string order of the node ids in use, *)
(* and the stable descending sort by a numeric key.                        *)
(***************************************************************************)
NodeName(k) == "n" \o ToString(k)

\* the node ids of this model in Python's string order
IdsInOrder ==
    <<"C:concept::fear", "C:concept::love", "C:concept::the", "C:fear", "C:love",
      "T:love">> \o [k \in 1..9 |-> NodeName(k)]

Rank(id) == CHOOSE i \in 1..Len(IdsInOrder) : IdsInOrder[i] = id

\* sorted(set)
RECURSIVE Sorted(_)
Sorted(S) ==
    IF S = {} THEN <<>>
    ELSE LET m == CHOOSE x \in S : \A y \in S : Rank(x) <= Rank(y)
         IN <<m>> \o Sorted(S \ {m})

\* insert x with key k behind every entry whose key is >= k
RECURSIVE InsertDesc(_, _, _, _)
InsertDesc(items, keys, x, k) ==
    IF items = <<>> \/ keys[1] < k
    THEN [items |-> <<x>> \o items, keys |-> <<k>> \o keys]
    ELSE LET rest == InsertDesc(Tail(items), Tail(keys), x, k)
         IN [items |-> <<items[1]>> \o rest.items, keys |-> <<keys[1]>> \o rest.keys]

RECURSIVE SortDescFrom(_, _, _, _)
SortDescFrom(items, keys, i, acc) ==
    IF i > Len(items) THEN acc.items
    ELSE SortDescFrom(items, keys, i + 1,
                      InsertDesc(acc.items, acc.keys, items[i], keys[i]))

\* list.sort(key=..., reverse=True): stable, descending; keys[i] is the key of items[i]
SortDesc(items, keys) ==
    SortDescFrom(items, keys, 1, [items |-> <<>>, keys |-> <<>>])

(***************************************************************************)
(* graph.py: degree_strong                                                 *)
(***************************************************************************)
RECURSIVE DegreeFrom(_, _, _, _, _, _)
DegreeFrom(gr, edges, i, edge_min, allowed_rels, allowed_neighbor_types) ==
    IF i > Len(edges) THEN 0
    ELSE LET e == edges[i]
             nt == node_type(gr, e.dst)
             counted == /\ ~(e.weight < edge_min)
                        /\ e.rel \in allowed_rels
                        /\ ~(nt = None \/ nt \notin allowed_neighbor_types)
         IN (IF counted THEN 1 ELSE 0)
            + DegreeFrom(gr, edges, i + 1, edge_min, allowed_rels,
                         allowed_neighbor_types)

degree_strong(gr, node_id, edge_min, allowed_rels, allowed_neighbor_types) ==
    DegreeFrom(gr, neighbors(gr, node_id), 1, edge_min, allowed_rels,
               allowed_neighbor_types)

(***************************************************************************)
(* cluster.py: seeding                                                     *)
(***************************************************************************)
\* lets TERM nodes be seeds and steps of the separation search
SEED_TYPES_WITH_TERM == {CONCEPT, MOTIF, TENSION, TERM}

SEED_ALLOWED_TYPES == {CONCEPT, MOTIF, TENSION}

\* every relation, CAUSAL among them
DEGREE_RELS_WITH_CAUSAL == EdgeRel

DEGREE_ALLOWED_RELS == {SUPPORTS, ANALOGOUS, CONTRASTS, FRAMES, PART_OF, OVERLAPS}

DEGREE_ALLOWED_NEIGHBORS == {CONCEPT, MOTIF, TENSION}

\* seed_score in thirds: 3 * (A + B + C + D), B = min(3.0, deg / 3.0)
seed_score(gr, node_id, cluster_params) ==
    LET n == NodeOf(gr, node_id)
        support_count ==
            Cardinality({c \in DOMAIN n.corpus_support : n.corpus_support[c] > 0})
        A == IF support_count <= 1 THEN 0
             ELSE IF support_count = 2 THEN 2
             ELSE IF support_count = 3 THEN 3
             ELSE 4
        deg == degree_strong(gr, node_id, cluster_params.edge_min,
                             DEGREE_ALLOWED_RELS, DEGREE_ALLOWED_NEIGHBORS)
        B3 == Min(9, deg)
        C == IF n.type = TENSION THEN 1 ELSE 0
        ent_sources ==
            {gr.entropy_by_corpus[c] :
                c \in (DOMAIN n.corpus_support) \cap (DOMAIN gr.entropy_by_corpus)}
        D == IF (\E e \in ent_sources : e < 45) /\ (\E e \in ent_sources : e >= 70)
             THEN 1 ELSE 0
    IN 3 * A + B3 + 3 * C + 3 * D

\* the for loop over g.neighbors(cur) of the separation search
RECURSIVE CloseNeighbors(_, _, _, _, _, _, _)
CloseNeighbors(gr, edges, i, d, edge_min, q, seen) ==
    IF i > Len(edges) THEN [q |-> q, seen |-> seen]
    ELSE LET e == edges[i]
         IN IF e.weight < edge_min
               \/ node_type(gr, e.dst) \notin SEED_ALLOWED_TYPES
               \/ e.dst \in seen
            THEN CloseNeighbors(gr, edges, i + 1, d, edge_min, q, seen)
            ELSE CloseNeighbors(gr, edges, i + 1, d, edge_min,
                                Append(q, <<e.dst, d + 1>>), seen \cup {e.dst})

\* the while loop of the separation search (off by one: stops a hop early)
RECURSIVE CloseSearchShort(_, _, _, _, _, _, _)
CloseSearchShort(gr, nid, targets, dist, edge_min, q, seen) ==
    IF q = <<>> THEN FALSE
    ELSE LET cur == q[1][1]
             d == q[1][2]
             rest == Tail(q)
         IN IF d >= dist
            THEN CloseSearchShort(gr, nid, targets, dist, edge_min, rest, seen)
            ELSE IF cur \in targets /\ cur # nid THEN TRUE
            ELSE LET r == CloseNeighbors(gr, neighbors(gr, cur), 1, d, edge_min,
                                         rest, seen)
                 IN CloseSearchShort(gr, nid, targets, dist, edge_min, r.q, r.seen)

\* the while loop of the separation search
RECURSIVE CloseSearch(_, _, _, _, _, _, _)
CloseSearch(gr, nid, targets, dist, edge_min, q, seen) ==
    IF q = <<>> THEN FALSE
    ELSE LET cur == q[1][1]
             d == q[1][2]
             rest == Tail(q)
         IN IF d > dist
            THEN CloseSearch(gr, nid, targets, dist, edge_min, rest, seen)
            ELSE IF cur \in targets /\ cur # nid THEN TRUE
            ELSE IF d = dist
            THEN CloseSearch(gr, nid, targets, dist, edge_min, rest, seen)
            ELSE LET r == CloseNeighbors(gr, neighbors(gr, cur), 1, d, edge_min,
                                         rest, seen)
                 IN CloseSearch(gr, nid, targets, dist, edge_min, r.q, r.seen)

too_close_short(gr, nid, seed_list, dist, edge_min) ==
    IF seed_list = <<>> THEN FALSE
    ELSE CloseSearchShort(gr, nid, {seed_list[i][1] : i \in 1..Len(seed_list)},
                          dist, edge_min, <<<<nid, 0>>>>, {nid})

too_close_to_existing_seed(gr, nid, seed_list, dist, edge_min) ==
    IF seed_list = <<>> THEN FALSE
    ELSE CloseSearch(gr, nid, {seed_list[i][1] : i \in 1..Len(seed_list)},
                     dist, edge_min, <<<<nid, 0>>>>, {nid})

\* the walk over the scored candidates
RECURSIVE SeedWalk(_, _, _, _, _, _)
SeedWalk(gr, scored, i, seed_params, cluster_params, acc) ==
    IF i > Len(scored) THEN acc
    ELSE LET nid == scored[i][1]
             sc == scored[i][2]
         IN IF sc < seed_params.seed_min
               \/ too_close_to_existing_seed(gr, nid, acc,
                                             seed_params.seed_separation_distance,
                                             cluster_params.edge_min)
            THEN SeedWalk(gr, scored, i + 1, seed_params, cluster_params, acc)
            ELSE SeedWalk(gr, scored, i + 1, seed_params, cluster_params,
                          Append(acc, <<nid, sc>>))

\* select_seeds walking the candidates in the order of g.nodes, unsorted
select_seeds_unsorted(gr, seed_params, cluster_params) ==
    LET candidates ==
            SelectSeq([i \in 1..Len(gr.nodes) |-> gr.nodes[i].node_id],
                      LAMBDA nid : NodeOf(gr, nid).type \in SEED_ALLOWED_TYPES)
        scored == [i \in 1..Len(candidates) |->
                      <<candidates[i], seed_score(gr, candidates[i], cluster_params)>>]
    IN SeedWalk(gr, scored, 1, seed_params, cluster_params, <<>>)

select_seeds(gr, seed_params, cluster_params) ==
    LET candidates ==
            SelectSeq([i \in 1..Len(gr.nodes) |-> gr.nodes[i].node_id],
                      LAMBDA nid : NodeOf(gr, nid).type \in SEED_ALLOWED_TYPES)
        scored == [i \in 1..Len(candidates) |->
                      <<candidates[i], seed_score(gr, candidates[i], cluster_params)>>]
        sorted == SortDesc(scored, [i \in 1..Len(scored) |-> scored[i][2]])
    IN SeedWalk(gr, sorted, 1, seed_params, cluster_params, <<>>)

(***************************************************************************)
(* cluster.py: growth and profiling                                        *)
(***************************************************************************)
GROWTH_TYPES == {CONCEPT, MOTIF, TENSION, TERM}

Cluster(cluster_id, seed_node, seed_sc, members) ==
    [cluster_id |-> cluster_id, seed_node |-> seed_node, seed_score |-> seed_sc,
     members |-> members, core |-> <<>>, support_profile |-> EmptyMap,
     entropy_min |-> 100, entropy_mean |-> [sum |-> 50, count |-> 1],
     entropy_max |-> 0, tension_nodes |-> <<>>, bridge_nodes |-> <<>>]

\* entropies of the corpora supporting the members, one entry per (member, corpus)
MemberEntropies(gr, members) ==
    {<<i, c>> \in (1..Len(members)) \X (DOMAIN gr.entropy_by_corpus) :
        c \in DOMAIN NodeOf(gr, members[i]).corpus_support}

RECURSIVE SumEntropies(_, _)
SumEntropies(gr, S) ==
    IF S = {} THEN 0
    ELSE LET x == CHOOSE y \in S : TRUE
         IN gr.entropy_by_corpus[x[2]] + SumEntropies(gr, S \ {x})

compute_cluster_profiles(gr, cluster, cluster_params) ==
    LET members == cluster.members
        corpora == UNION {DOMAIN NodeOf(gr, members[i]).corpus_support :
                             i \in 1..Len(members)}
        support ==
            [c \in corpora |->
                SumOver([i \in 1..Len(members) |->
                            Get(NodeOf(gr, members[i]).corpus_support, c, 0)],
                        1..Len(members))]
        ents == MemberEntropies(gr, members)
        values == {gr.entropy_by_corpus[x[2]] : x \in ents}
        tensions == SelectSeq(members, LAMBDA nid : NodeOf(gr, nid).type = TENSION)
        core_candidates ==
            SelectSeq(members,
                      LAMBDA nid : NodeOf(gr, nid).type \in {CONCEPT, MOTIF, TENSION})
        ranked == SortDesc(core_candidates,
                           [i \in 1..Len(core_candidates) |->
                               NodeOf(gr, core_candidates[i]).weight])
    IN [cluster EXCEPT
           !.support_profile = support,
           !.entropy_min = IF ents = {} THEN @
                           ELSE CHOOSE v \in values : \A w \in values : v <= w,
           !.entropy_max = IF ents = {} THEN @
                           ELSE CHOOSE v \in values : \A w \in values : v >= w,
           !.entropy_mean = IF ents = {} THEN @
                            ELSE [sum |-> SumEntropies(gr, ents),
                                  count |-> Cardinality(ents)],
           !.tension_nodes = tensions,
           !.core = Take(ranked, cluster_params.core_size)]

\* the for loop over g.neighbors(cur) of the growth
RECURSIVE GrowNeighbors(_, _, _, _, _, _, _)
GrowNeighbors(gr, edges, i, depth, edge_min, frontier, members) ==
    IF i > Len(edges) THEN [frontier |-> frontier, members |-> members]
    ELSE LET e == edges[i]
         IN IF e.weight < edge_min
               \/ node_type(gr, e.dst) \notin GROWTH_TYPES
               \/ e.dst \in members
            THEN GrowNeighbors(gr, edges, i + 1, depth, edge_min, frontier, members)
            ELSE GrowNeighbors(gr, edges, i + 1, depth, edge_min,
                               Append(frontier, <<e.dst, depth + 1>>),
                               members \cup {e.dst})

\* the while loop of the growth (explores one level too many)
RECURSIVE GrowLoopDeep(_, _, _, _)
GrowLoopDeep(gr, cluster_params, frontier, members) ==
    IF frontier = <<>> THEN members
    ELSE LET cur == frontier[1][1]
             depth == frontier[1][2]
             rest == Tail(frontier)
         IN IF depth > cluster_params.max_growth_depth
            THEN GrowLoopDeep(gr, cluster_params, rest, members)
            ELSE LET r == GrowNeighbors(gr, neighbors(gr, cur), 1, depth,
                                        cluster_params.edge_min, rest, members)
                 IN GrowLoopDeep(gr, cluster_params, r.frontier, r.members)

\* the while loop of the growth
RECURSIVE GrowLoop(_, _, _, _)
GrowLoop(gr, cluster_params, frontier, members) ==
    IF frontier = <<>> THEN members
    ELSE LET cur == frontier[1][1]
             depth == frontier[1][2]
             rest == Tail(frontier)
         IN IF depth >= cluster_params.max_growth_depth
            THEN GrowLoop(gr, cluster_params, rest, members)
            ELSE LET r == GrowNeighbors(gr, neighbors(gr, cur), 1, depth,
                                        cluster_params.edge_min, rest, members)
                 IN GrowLoop(gr, cluster_params, r.frontier, r.members)

\* the while loop of the growth (stops one level early)
RECURSIVE GrowLoopShallow(_, _, _, _)
GrowLoopShallow(gr, cluster_params, frontier, members) ==
    IF frontier = <<>> THEN members
    ELSE LET cur == frontier[1][1]
             depth == frontier[1][2]
             rest == Tail(frontier)
         IN IF depth + 1 >= cluster_params.max_growth_depth
            THEN GrowLoopShallow(gr, cluster_params, rest, members)
            ELSE LET r == GrowNeighbors(gr, neighbors(gr, cur), 1, depth,
                                        cluster_params.edge_min, rest, members)
                 IN GrowLoopShallow(gr, cluster_params, r.frontier, r.members)

grow_members_shallow(gr, seed, cluster_params) ==
    GrowLoopShallow(gr, cluster_params, <<<<seed, 0>>>>, {seed})

grow_members_deep(gr, seed, cluster_params) ==
    GrowLoopDeep(gr, cluster_params, <<<<seed, 0>>>>, {seed})

grow_members(gr, seed, cluster_params) ==
    GrowLoop(gr, cluster_params, <<<<seed, 0>>>>, {seed})

grow_cluster_from_seed(gr, seed, seed_sc, cluster_id, cluster_params) ==
    compute_cluster_profiles(
        gr,
        Cluster(cluster_id, seed, seed_sc, Sorted(grow_members(gr, seed, cluster_params))),
        cluster_params)

(***************************************************************************)
(* Seeding and growth on a graph assembled by direct ensure_node and       *)
(* add_edge calls, then select_seeds and one grow_cluster_from_seed per    *)
(* seed (interpreter_v1.main, lines 164-172).                              *)
(***************************************************************************)
MaxCalls == 5

DirectNodeTypes == {TERM, CONCEPT, TENSION, BODY_SEED}

\* edge weights below and above every edge_min in use, in millionths
DirectEdgeWeights == {40 * 10000, 60 * 10000}

\* seed_min 4.0 (in thirds): a TENSION node supported by both corpora reaches
\* it, a CONCEPT node needs strong neighbours to
SeedParamChoices ==
    [seed_min : {3 * 4}, seed_separation_distance : {1, 2}]

ClusterParamChoices ==
    [edge_min : {DefaultEdgeMin}, merge_overlap : {60}, core_size : {7},
     max_growth_depth : {0, 1}]

DirectNode(id, type) ==
    GraphNode(id, type, 10, [c \in Corpora |-> 5], <<>>, None)

InitSeed ==
    /\ g = [EmptyGraph EXCEPT !.entropy_by_corpus = EntropyOf]
    /\ params = EmptyMap
    /\ pc = "build"
    /\ calls = 0
    /\ essence_of = EmptyMap
    /\ hist = <<>>
    /\ prev_g = EmptyMap
    /\ before_first = EmptyMap
    /\ after_first = EmptyMap
    /\ seeds = <<>>
    /\ clusters = <<>>
    /\ cluster_list = <<>>
    /\ passes = 0
    /\ spines = <<>>
    /\ chosen = <<>>
    /\ lengths = <<>>
    /\ lineage = <<>>
    /\ answer = <<>>
    /\ raised = <<>>

\* g.ensure_node(node) with a new id
EnsureNode ==
    /\ pc = "build"
    /\ calls < MaxCalls
    /\ \E type \in DirectNodeTypes :
          g' = ensure_node(g, DirectNode(NodeName(Len(g.nodes) + 1), type))
    /\ calls' = calls + 1
    /\ UNCHANGED <<params, pc, essence_of, hist, prev_g, before_first, after_first,
                   seeds, clusters, cluster_list, passes, spines, chosen,
                   lengths, lineage, answer, raised>>

\* g.add_edge(edge) between two nodes of the graph
AddEdge ==
    /\ pc = "build"
    /\ calls < MaxCalls
    /\ \E i \in 1..Len(g.nodes) : \E j \in (i + 1)..Len(g.nodes) :
          \E w \in DirectEdgeWeights :
             g' = add_edge(g, GraphEdge(g.nodes[i].node_id, g.nodes[j].node_id,
                                        SUPPORTS, w, <<>>))
    /\ calls' = calls + 1
    /\ UNCHANGED <<params, pc, essence_of, hist, prev_g, before_first, after_first,
                   seeds, clusters, cluster_list, passes, spines, chosen,
                   lengths, lineage, answer, raised>>

\* seeds = select_seeds(g, seed_params, cluster_params)
SelectSeeds ==
    /\ pc = "build"
    /\ \E sp \in SeedParamChoices : \E cp \in ClusterParamChoices :
          /\ params' = [seed |-> sp, cluster |-> cp]
          /\ seeds' = select_seeds(g, sp, cp)
    /\ pc' = "seeded"
    /\ UNCHANGED <<g, calls, essence_of, hist, prev_g, before_first, after_first,
                   clusters, cluster_list, passes, spines, chosen,
                   lengths, lineage, answer, raised>>

\* clusters.append(grow_cluster_from_seed(g, seed_id, seed_sc, f"C{idx+1}", cluster_params))
GrowCluster ==
    /\ pc = "seeded"
    /\ Len(clusters) < Len(seeds)
    /\ LET idx == Len(clusters) + 1
       IN clusters' = Append(clusters,
                             grow_cluster_from_seed(g, seeds[idx][1], seeds[idx][2],
                                                    "C" \o ToString(idx),
                                                    params.cluster))
    /\ UNCHANGED <<g, params, pc, calls, essence_of, hist, prev_g, before_first,
                   after_first, seeds, cluster_list, passes, spines, chosen,
                   lengths, lineage, answer, raised>>

NextSeed == EnsureNode \/ AddEdge \/ SelectSeeds \/ GrowCluster

SpecSeed == InitSeed /\ [][NextSeed]_vars

(***************************************************************************)
(* Properties of seeding and growth.                                       *)
(***************************************************************************)
EdgesOf(gr, id) == Range(neighbors(gr, id))

\* one hop along edges of weight >= edge_min whose endpoints both have a
\* seed-eligible type
SeedHop(gr, edge_min, S) ==
    S \cup {e.dst : e \in {x \in UNION {EdgesOf(gr, u) : u \in S} :
                             /\ x.weight >= edge_min
                             /\ node_type(gr, x.src) \in SEED_ALLOWED_TYPES
                             /\ node_type(gr, x.dst) \in SEED_ALLOWED_TYPES}}

RECURSIVE WithinSeedHops(_, _, _, _)
WithinSeedHops(gr, edge_min, S, k) ==
    IF k = 0 THEN S ELSE WithinSeedHops(gr, edge_min, SeedHop(gr, edge_min, S), k - 1)

SeedIds == {seeds[i][1] : i \in 1..Len(seeds)}

\* C5: any two seeds returned by select_seeds are more than
\* seed_separation_distance hops apart along edges of weight >= edge_min whose
\* endpoints are both CONCEPT, MOTIF or TENSION nodes.
C5_SeedsSeparated ==
    pc = "seeded" =>
        \A i \in 1..Len(seeds) : \A j \in 1..Len(seeds) :
            i # j =>
                seeds[j][1] \notin
                    WithinSeedHops(g, params.cluster.edge_min, {seeds[i][1]},
                                   params.seed.seed_separation_distance)

\* two seeds were accepted and a candidate with a passing score was rejected
\* because a seed lies within the separation distance of it
C5_Witness ==
    /\ pc = "seeded"
    /\ Len(seeds) >= 2
    /\ \E id \in NodeIds(g) \ SeedIds :
          /\ node_type(g, id) \in SEED_ALLOWED_TYPES
          /\ seed_score(g, id, params.cluster) >= params.seed.seed_min
          /\ SeedIds \cap WithinSeedHops(g, params.cluster.edge_min, {id},
                                         params.seed.seed_separation_distance) # {}

\* one hop along an edge of weight >= edge_min to a CONCEPT, MOTIF, TENSION or
\* TERM node
GrowHop(gr, edge_min, S) ==
    S \cup {e.dst : e \in {x \in UNION {EdgesOf(gr, u) : u \in S} :
                             /\ x.weight >= edge_min
                             /\ node_type(gr, x.dst) \in GROWTH_TYPES}}

RECURSIVE WithinGrowHops(_, _, _, _)
WithinGrowHops(gr, edge_min, S, k) ==
    IF k = 0 THEN S ELSE WithinGrowHops(gr, edge_min, GrowHop(gr, edge_min, S), k - 1)

\* C6: every member of a grown cluster is the seed or is reachable from it by
\* at most max_growth_depth edges of weight >= edge_min leading to CONCEPT,
\* MOTIF, TENSION or TERM nodes; a seed with no edge of weight >= edge_min
\* gets the member list [seed].
C6_MembersWithinGrowthDepth ==
    \A k \in 1..Len(clusters) :
        LET c == clusters[k]
        IN /\ c.seed_node = seeds[k][1]
           /\ Range(c.members) \subseteq
                 WithinGrowHops(g, params.cluster.edge_min, {c.seed_node},
                                params.cluster.max_growth_depth)
           /\ (\A e \in EdgesOf(g, c.seed_node) : e.weight < params.cluster.edge_min)
                 => c.members = <<c.seed_node>>

\* a grown cluster has a member besides its seed, and a node one qualifying
\* edge beyond the growth depth stays outside it
C6_Witness ==
    \E k \in 1..Len(clusters) :
        LET c == clusters[k]
        IN /\ Len(c.members) >= 2
           /\ WithinGrowHops(g, params.cluster.edge_min, {c.seed_node},
                             params.cluster.max_growth_depth + 1)
                 \ Range(c.members) # {}

(***************************************************************************)
(* cluster.py: merging                                                     *)
(***************************************************************************)
Abs(x) == IF x < 0 THEN -x ELSE x

\* top_share(c) as the pair top, total; the quotient is compared by cross
\* multiplication
top_share(c) ==
    LET sp == c.support_profile
        sum == SumValues(sp)
        values == {sp[k] : k \in DOMAIN sp}
    IN [top |-> IF values = {} THEN 0
                ELSE CHOOSE v \in values : \A w \in values : v >= w,
        total |-> IF sum = 0 THEN 1 ELSE sum]

\* should_merge measuring the overlap against the core of a alone
should_merge_by_first(gr, a, b, cluster_params) ==
    LET core_a == Range(a.core)
        core_b == Range(b.core)
        sa == top_share(a)
        sb == top_share(b)
    IN IF core_a = {} \/ core_b = {} THEN FALSE
       ELSE IF 100 * Cardinality(core_a \cap core_b)
                   < cluster_params.merge_overlap * Cardinality(core_a)
       THEN FALSE
       ELSE IF 100 * Abs(sa.top * sb.total - sb.top * sa.total) > 35 * sa.total * sb.total
       THEN FALSE
       ELSE TRUE

\* merge_overlap in hundredths
should_merge(gr, a, b, cluster_params) ==
    LET core_a == Range(a.core)
        core_b == Range(b.core)
        smaller == Min(Cardinality(core_a), Cardinality(core_b))
        sa == top_share(a)
        sb == top_share(b)
    IN IF core_a = {} \/ core_b = {} THEN FALSE
       ELSE IF 100 * Cardinality(core_a \cap core_b) < cluster_params.merge_overlap * smaller
       THEN FALSE
       ELSE IF 100 * Abs(sa.top * sb.total - sb.top * sa.total) > 35 * sa.total * sb.total
       THEN FALSE
       ELSE TRUE

\* the merged cluster without the members of cj
MergedClusterOfFirst(gr, ci, cj, cluster_params) ==
    compute_cluster_profiles(
        gr,
        Cluster(ci.cluster_id \o "+" \o cj.cluster_id, ci.seed_node,
                Max(ci.seed_score, cj.seed_score), Sorted(Range(ci.members))),
        cluster_params)

\* joins the two member lists as they are
MergedClusterConcatenated(gr, ci, cj, cluster_params) ==
    compute_cluster_profiles(
        gr,
        Cluster(ci.cluster_id \o "+" \o cj.cluster_id, ci.seed_node,
                Max(ci.seed_score, cj.seed_score),
                ci.members \o cj.members),
        cluster_params)

\* new_cluster of merge_clusters
MergedCluster(gr, ci, cj, cluster_params) ==
    compute_cluster_profiles(
        gr,
        Cluster(ci.cluster_id \o "+" \o cj.cluster_id, ci.seed_node,
                Max(ci.seed_score, cj.seed_score),
                Sorted(Range(ci.members) \cup Range(cj.members))),
        cluster_params)

\* the inner for loop: the first unused j > i with should_merge(ci, cj), 0 if none
RECURSIVE FirstPartner(_, _, _, _, _, _)
FirstPartner(gr, list, i, j, used, cluster_params) ==
    IF j > Len(list) THEN 0
    ELSE IF j \in used THEN FirstPartner(gr, list, i, j + 1, used, cluster_params)
    ELSE IF should_merge(gr, list[i], list[j], cluster_params) THEN j
    ELSE FirstPartner(gr, list, i, j + 1, used, cluster_params)

\* the outer for loop that forgets to mark cj as used
RECURSIVE MergeScanKeepingPartner(_, _, _, _, _)
MergeScanKeepingPartner(gr, list, lin, cluster_params, st) ==
    IF st.i > Len(list) THEN st
    ELSE IF st.i \in st.used
    THEN MergeScanKeepingPartner(gr, list, lin, cluster_params, [st EXCEPT !.i = @ + 1])
    ELSE LET j == FirstPartner(gr, list, st.i, st.i + 1, st.used, cluster_params)
         IN IF j # 0
            THEN MergeScanKeepingPartner(gr, list, lin, cluster_params,
                    [i |-> st.i + 1, used |-> st.used \cup {st.i},
                     out |-> Append(st.out,
                                    MergedCluster(gr, list[st.i], list[j], cluster_params)),
                     outlin |-> Append(st.outlin, lin[st.i] \o lin[j]),
                     merged |-> TRUE])
            ELSE MergeScanKeepingPartner(gr, list, lin, cluster_params,
                    [i |-> st.i + 1, used |-> st.used \cup {st.i},
                     out |-> Append(st.out, list[st.i]),
                     outlin |-> Append(st.outlin, lin[st.i]),
                     merged |-> st.merged])

merge_pass_keeping_partner(gr, list, lin, cluster_params) ==
    MergeScanKeepingPartner(gr, list, lin, cluster_params,
                            [i |-> 1, used |-> {}, out |-> <<>>, outlin |-> <<>>,
                             merged |-> FALSE])

\* the outer for loop of one pass; lin and outlin carry, for every cluster, the
\* input positions it was merged from, in merge order
RECURSIVE MergeScan(_, _, _, _, _)
MergeScan(gr, list, lin, cluster_params, st) ==
    IF st.i > Len(list) THEN st
    ELSE IF st.i \in st.used
    THEN MergeScan(gr, list, lin, cluster_params, [st EXCEPT !.i = @ + 1])
    ELSE LET j == FirstPartner(gr, list, st.i, st.i + 1, st.used, cluster_params)
         IN IF j # 0
            THEN MergeScan(gr, list, lin, cluster_params,
                    [i |-> st.i + 1, used |-> st.used \cup {st.i, j},
                     out |-> Append(st.out,
                                    MergedCluster(gr, list[st.i], list[j], cluster_params)),
                     outlin |-> Append(st.outlin, lin[st.i] \o lin[j]),
                     merged |-> TRUE])
            ELSE MergeScan(gr, list, lin, cluster_params,
                    [i |-> st.i + 1, used |-> st.used \cup {st.i},
                     out |-> Append(st.out, list[st.i]),
                     outlin |-> Append(st.outlin, lin[st.i]),
                     merged |-> st.merged])

\* one iteration of the while loop that never reports a merge, so that the loop
\* ends after its first pass
merge_pass_once(gr, list, lin, cluster_params) ==
    [MergeScan(gr, list, lin, cluster_params,
               [i |-> 1, used |-> {}, out |-> <<>>, outlin |-> <<>>, merged |-> FALSE])
        EXCEPT !.merged = FALSE]

\* one iteration of the while loop of merge_clusters
merge_pass(gr, list, lin, cluster_params) ==
    MergeScan(gr, list, lin, cluster_params,
              [i |-> 1, used |-> {}, out |-> <<>>, outlin |-> <<>>, merged |-> FALSE])

(***************************************************************************)
(* merge_clusters on a list of profiled clusters over a small graph        *)
(***************************************************************************)
MaxClusters == 4

\* a concept and a term of corpus A and a tension of corpus B
MergeNodes ==
    <<GraphNode(NodeName(1), CONCEPT, 9, [c \in {"A"} |-> 9], <<>>, None),
      GraphNode(NodeName(2), TENSION, 6, [c \in {"B"} |-> 6], <<>>, None),
      GraphNode(NodeName(3), TERM, 6, [c \in {"A"} |-> 6], <<>>, None)>>

RECURSIVE GraphOf(_, _)
GraphOf(gr, node_list) ==
    IF node_list = <<>> THEN gr
    ELSE GraphOf(ensure_node(gr, node_list[1]), Tail(node_list))

MergeGraph ==
    GraphOf([EmptyGraph EXCEPT !.entropy_by_corpus = EntropyOf], MergeNodes)

MergeParamChoices ==
    [edge_min : {DefaultEdgeMin}, merge_overlap : {60}, core_size : {1, 7},
     max_growth_depth : {2}]

\* the member lists of one or two nodes
MemberLists ==
    {Sorted(S) : S \in {T \in SUBSET NodeIds(MergeGraph) : Cardinality(T) \in {1, 2}}}

\* the clusters the caller passes: C1, C2, ... with their profiles computed
InputClusters(member_lists, cluster_params) ==
    [i \in 1..Len(member_lists) |->
        compute_cluster_profiles(
            MergeGraph,
            Cluster("C" \o ToString(i), member_lists[i][1], 3 * 4, member_lists[i]),
            cluster_params)]

InitMerge ==
    /\ g = MergeGraph
    /\ \E cp \in MergeParamChoices : \E ms \in SeqsUpTo(MemberLists, MaxClusters) :
          /\ params = [cluster |-> cp]
          /\ clusters = InputClusters(ms, cp)
    /\ cluster_list = clusters
    /\ lineage = [i \in 1..Len(clusters) |-> <<i>>]
    /\ answer = <<>>
    /\ raised = <<>>
    /\ lengths = <<Len(clusters)>>
    /\ passes = 0
    /\ pc = "merging"
    /\ calls = 0
    /\ essence_of = EmptyMap
    /\ hist = <<>>
    /\ prev_g = EmptyMap
    /\ before_first = EmptyMap
    /\ after_first = EmptyMap
    /\ seeds = <<>>
    /\ spines = <<>>
    /\ chosen = <<>>

\* one iteration of `while merged:`; the loop ends after a pass without a merge
MergePass ==
    /\ pc = "merging"
    /\ LET r == merge_pass(g, cluster_list, lineage, params.cluster)
       IN /\ cluster_list' = r.out
          /\ lineage' = r.outlin
          /\ lengths' = Append(lengths, Len(r.out))
          /\ pc' = IF r.merged THEN "merging" ELSE "merged"
    /\ passes' = passes + 1
    /\ UNCHANGED <<g, params, calls, essence_of, hist, prev_g, before_first,
                   after_first, seeds, clusters, spines, chosen, answer,
                   raised>>

NextMerge == MergePass

SpecMerge == InitMerge /\ [][NextMerge]_vars

(***************************************************************************)
(* Properties of merge_clusters.                                           *)
(***************************************************************************)
\* the passes so far that performed a merge: all but the last one of a finished run
MergingPasses == IF pc = "merged" THEN passes - 1 ELSE passes

\* C7: merge_clusters terminates: every pass that performs a merge leaves a
\* strictly shorter cluster list than it started with, so at most as many passes
\* run as there are input clusters (an empty input takes the single pass that
\* finds nothing to merge).
C7_MergingPassShortensList ==
    pc \in {"merging", "merged"} =>
        /\ Len(lengths) = passes + 1
        /\ \A k \in 1..MergingPasses : lengths[k + 1] < lengths[k]
        /\ pc = "merged" => lengths[passes + 1] = lengths[passes]
        /\ MergingPasses + Len(cluster_list) <= Len(clusters)
        /\ Len(clusters) >= 1 => passes <= Len(clusters)

\* a run over three clusters that needed two merging passes and the final one
C7_Witness ==
    /\ pc = "merged"
    /\ Len(clusters) = 3
    /\ passes = 3
    /\ Len(cluster_list) = 1

MembersOf(list) == UNION {Range(list[k].members) : k \in 1..Len(list)}

RECURSIVE JoinIds(_)
JoinIds(positions) ==
    IF Len(positions) = 1 THEN clusters[positions[1]].cluster_id
    ELSE clusters[positions[1]].cluster_id \o "+" \o JoinIds(Tail(positions))

Descendants(i) == {k \in 1..Len(cluster_list) : i \in Range(lineage[k])}

\* C8: the clusters merge_clusters returns have together exactly the members of
\* the input clusters, and every input cluster has exactly one returned cluster
\* descending from it, whose members include all of its own.
C8_MembersPreserved ==
    pc = "merged" =>
        /\ MembersOf(cluster_list) = MembersOf(clusters)
        /\ \A k \in 1..Len(cluster_list) : cluster_list[k].cluster_id = JoinIds(lineage[k])
        /\ \A i \in 1..Len(clusters) :
              /\ Cardinality(Descendants(i)) = 1
              /\ \A k \in Descendants(i) :
                    Range(clusters[i].members) \subseteq Range(cluster_list[k].members)

\* a finished run in which a merged cluster has more members than either of the
\* two clusters it was merged from, next to a cluster that was left alone
C8_Witness ==
    /\ pc = "merged"
    /\ \E k \in 1..Len(cluster_list) :
          /\ Len(lineage[k]) = 2
          /\ \A i \in Range(lineage[k]) :
                Len(clusters[i].members) < Len(cluster_list[k].members)
    /\ \E k \in 1..Len(cluster_list) : Len(lineage[k]) = 1

(***************************************************************************)
(* spines.py: choose_spines_for_output                                     *)
(***************************************************************************)
Spine(spine_type, nodes, spine_clusters, score, score_breakdown) ==
    [spine_type |-> spine_type, nodes |-> nodes, clusters |-> spine_clusters,
     score |-> score, score_breakdown |-> score_breakdown]

\* index of the spine the for loop over spines[1:] stops at: the first one whose
\* type differs from the primary's, 0 when the loop ends without a break
SecondaryIndex(spine_list) ==
    LET others == {i \in 2..Len(spine_list) :
                      spine_list[i].spine_type # spine_list[1].spine_type}
    IN IF others = {} THEN 0 ELSE CHOOSE i \in others : \A j \in others : i <= j

\* takes the spine after the primary whatever its type
choose_spines_by_rank(spine_list, spine_params) ==
    IF spine_list = <<>> THEN <<>>
    ELSE IF Len(spine_list) >= 2 /\ spine_params.max_spines_shown >= 2
    THEN <<spine_list[1], spine_list[2]>>
    ELSE <<spine_list[1]>>

choose_spines_for_output(spine_list, spine_params) ==
    IF spine_list = <<>> THEN <<>>
    ELSE LET primary == spine_list[1]
             secondary == SecondaryIndex(spine_list)
         IN IF secondary # 0 /\ spine_params.max_spines_shown >= 2
            THEN <<primary, spine_list[secondary]>>
            ELSE <<primary>>

(***************************************************************************)
(* choose_spines_for_output on score-ordered spine lists                   *)
(***************************************************************************)
MaxSpines == 3

MaxShown == 3

SpineTypes == {"invariant", "tension", "delta"}

SpineScores == {0, 4, 7}

SpineChoices ==
    {Spine(t, <<>>, <<>>, sc, EmptyMap) : t \in SpineTypes, sc \in SpineScores}

\* spines.sort(key=lambda s: s.score, reverse=True) leaves the list in this order
ScoreOrdered(spine_list) ==
    \A i \in 1..(Len(spine_list) - 1) : spine_list[i].score >= spine_list[i + 1].score

InitSpine ==
    /\ spines \in {sl \in SeqsUpTo(SpineChoices, MaxSpines) : ScoreOrdered(sl)}
    /\ \E k \in 0..MaxShown : params = [spine |-> [max_spines_shown |-> k]]
    /\ chosen = <<>>
    /\ pc = "spines"
    /\ g = EmptyGraph
    /\ calls = 0
    /\ essence_of = EmptyMap
    /\ hist = <<>>
    /\ prev_g = EmptyMap
    /\ before_first = EmptyMap
    /\ after_first = EmptyMap
    /\ seeds = <<>>
    /\ clusters = <<>>
    /\ cluster_list = <<>>
    /\ passes = 0
    /\ lengths = <<>>
    /\ lineage = <<>>
    /\ answer = <<>>
    /\ raised = <<>>

\* chosen = choose_spines_for_output(spines, spine_params)
ChooseSpines ==
    /\ pc = "spines"
    /\ chosen' = choose_spines_for_output(spines, params.spine)
    /\ pc' = "chosen"
    /\ UNCHANGED <<g, params, calls, essence_of, hist, prev_g, before_first,
                   after_first, seeds, clusters, cluster_list, passes, spines,
                   lengths, lineage, answer, raised>>

NextSpine == ChooseSpines

SpecSpine == InitSpine /\ [][NextSpine]_vars

(***************************************************************************)
(* Properties of choose_spines_for_output.                                 *)
(***************************************************************************)
TwoTypesWithPositiveScore ==
    \E i \in 1..Len(spines) : \E j \in 1..Len(spines) :
        /\ spines[i].spine_type # spines[j].spine_type
        /\ spines[i].score > 0
        /\ spines[j].score > 0

\* C9: when the input list has spines of at least two distinct types with
\* positive score, choose_spines_for_output returns no two spines of the same
\* spine_type.
C9_NoTwoSpinesOfOneType ==
    (pc = "chosen" /\ TwoTypesWithPositiveScore) =>
        \A a \in 1..Len(chosen) : \A b \in 1..Len(chosen) :
            a # b => chosen[a].spine_type # chosen[b].spine_type

\* two spines are returned although the runner-up has the primary's type
C9_Witness ==
    /\ pc = "chosen"
    /\ TwoTypesWithPositiveScore
    /\ Len(chosen) = 2
    /\ spines[2].spine_type = spines[1].spine_type

\* C10: for every max_spines_shown >= 0 and every input list at most
\* max_spines_shown spines are returned; with limit 1, or with no spine of
\* another type, a non-empty list yields the primary only.
C10_AtMostMaxSpinesShown ==
    pc = "chosen" =>
        /\ Len(chosen) <= params.spine.max_spines_shown
        /\ (spines # <<>> /\ (params.spine.max_spines_shown = 1
                               \/ SecondaryIndex(spines) = 0))
              => chosen = <<spines[1]>>

(***************************************************************************)
(* spines.py: build_spines                                                 *)
(* Scores are exact fractions [n, d] with d > 0, kept in lowest terms.     *)
(***************************************************************************)
RECURSIVE GCD(_, _)
GCD(a, b) == IF b = 0 THEN a ELSE GCD(b, a % b)

Rat(n, d) ==
    LET k == GCD(Abs(n), d) IN [n |-> n \div k, d |-> d \div k]

\* sums and comparisons go through the least common denominator
RatAdd(a, b) ==
    LET k == GCD(a.d, b.d)
    IN Rat(a.n * (b.d \div k) + b.n * (a.d \div k), (a.d \div k) * b.d)

\* a * (k / m)
RatTimes(a, k, m) == Rat(a.n * k, a.d * m)

RatLess(a, b) ==
    LET k == GCD(a.d, b.d) IN a.n * (b.d \div k) < b.n * (a.d \div k)

RatAbsDiff(a, b) ==
    LET k == GCD(a.d, b.d)
    IN Rat(Abs(a.n * (b.d \div k) - b.n * (a.d \div k)), (a.d \div k) * b.d)

Zero == Rat(0, 1)

GLUE_TERMS ==
    {"and", "or", "the", "a", "an", "of", "to", "in", "is", "was", "were",
     "be", "been", "being", "that", "this", "these", "those",
     "his", "her", "their", "its", "with", "for", "on", "by", "as", "at",
     "from", "not", "but", "which", "who", "whom", "what"}

\* 1 / GLUE_PENALTY
GLUE_DIVISOR == 2 * 2

\* the lower-case words node ids of this model are made of
Words == {"love", "fear", "the"}

\* nid.replace("C:concept::", "").replace("T:", "").lower() on the ids of this
\* model: "C:concept::" \o w, "T:" \o w, "C:" \o w and the names n1, n2, ...
_label(nid) ==
    IF \E w \in Words : nid = "C:concept::" \o w
    THEN CHOOSE w \in Words : nid = "C:concept::" \o w
    ELSE IF \E w \in Words : nid = "T:" \o w
    THEN CHOOSE w \in Words : nid = "T:" \o w
    ELSE IF \E w \in Words : nid = "C:" \o w
    THEN "c:" \o (CHOOSE w \in Words : nid = "C:" \o w)
    ELSE nid

\* _adjusted_weight in quarters of a weight unit
_adjusted_weight(gr, nid) ==
    IF _label(nid) \in GLUE_TERMS
    THEN NodeOf(gr, nid).weight
    ELSE GLUE_DIVISOR * NodeOf(gr, nid).weight

_question_region(gr, question_terms) ==
    LET qnodes == {TermId(question_terms[i]) : i \in 1..Len(question_terms)}
                      \cap NodeIds(gr)
    IN qnodes \cup {e.dst : e \in {x \in UNION {Range(neighbors(gr, nid)) : nid \in qnodes} :
                                      node_type(gr, x.dst) = CONCEPT}}

\* m.strength in hundredths; 0.6 * diversity + 0.4 * (1 - dominance) = 1 - dominance
_cluster_foreground_bonus(c, m) ==
    LET ts == top_share(c)
    IN Rat(m.strength * (ts.total - ts.top), 100 * ts.total)

\* _dedupe
RECURSIVE _dedupe(_)
_dedupe(xs) ==
    IF xs = <<>> THEN <<>>
    ELSE LET front == _dedupe(SubSeq(xs, 1, Len(xs) - 1))
             x == xs[Len(xs)]
         IN IF x \in Range(front) THEN front ELSE Append(front, x)

MaxOf(S) == CHOOSE v \in S : \A w \in S : v >= w

\* core.sort(key=lambda nid: (len(corpus_support), _adjusted_weight), reverse=True):
\* the pair is ordered as one number
SupportThenWeightKeys(gr, core) ==
    LET adj == [i \in 1..Len(core) |-> _adjusted_weight(gr, core[i])]
        base == 1 + MaxOf({adj[i] : i \in 1..Len(core)} \cup {0})
    IN [i \in 1..Len(core) |->
           Cardinality(DOMAIN NodeOf(gr, core[i]).corpus_support) * base + adj[i]]

\* the loop body of _spine_invariant for cluster c
InvariantStep(gr, c, qreg, m, acc) ==
    LET core == SelectSeq(c.core, LAMBDA nid : NodeOf(gr, nid).type \in {CONCEPT, MOTIF})
        pick == Take(SortDesc(core, SupportThenWeightKeys(gr, core)), 6)
        gain == SumOver([i \in 1..Len(pick) |->
                            Min(4, Cardinality(DOMAIN NodeOf(gr, pick[i]).corpus_support))
                                * _adjusted_weight(gr, pick[i])],
                        1..Len(pick))
    IN [nodes |-> acc.nodes \o pick,
        clusters_used |-> Append(acc.clusters_used, c.cluster_id),
        mcur |-> RatAdd(acc.mcur, _cluster_foreground_bonus(c, m)),
        qfit |-> RatAdd(acc.qfit, Rat(5 * Cardinality(Range(pick) \cap qreg), 10)),
        part |-> RatAdd(acc.part, Rat(6 * gain, 10 * GLUE_DIVISOR))]

\* the loop body of _spine_tension for cluster c
TensionStep(gr, c, qreg, m, acc) ==
    LET tens == SelectSeq(c.tension_nodes, LAMBDA nid : nid \in Range(c.members))
        pick == Take(SortDesc(tens, [i \in 1..Len(tens) |-> _adjusted_weight(gr, tens[i])]),
                     4)
        linked(t) == SelectSeq(neighbors(gr, t),
                               LAMBDA e : node_type(gr, e.dst) = CONCEPT
                                          /\ e.weight >= 55 * 10000)
        dsts(t) == [i \in 1..Len(linked(t)) |-> linked(t)[i].dst]
        follow[i \in 0..Len(pick)] ==
            IF i = 0 THEN <<>> ELSE follow[i - 1] \o dsts(pick[i])
        nodes == acc.nodes \o pick \o follow[Len(pick)]
    IN [nodes |-> nodes,
        clusters_used |-> Append(acc.clusters_used, c.cluster_id),
        mcur |-> RatAdd(acc.mcur, _cluster_foreground_bonus(c, m)),
        qfit |-> RatAdd(acc.qfit, Rat(35 * Cardinality(Range(nodes) \cap qreg), 100)),
        part |-> RatAdd(acc.part, Rat(Len(pick), 1))]

\* the loop body of _spine_delta for cluster c
DeltaStep(gr, c, qreg, m, acc) ==
    LET core == SelectSeq(c.core,
                          LAMBDA nid : NodeOf(gr, nid).type \in {CONCEPT, MOTIF, TENSION})
        ranked == SortDesc(core, [i \in 1..Len(core) |-> _adjusted_weight(gr, core[i])])
    IN [nodes |-> acc.nodes \o Take(ranked, 6),
        clusters_used |-> Append(acc.clusters_used, c.cluster_id),
        mcur |-> RatAdd(acc.mcur, _cluster_foreground_bonus(c, m)),
        qfit |-> RatAdd(acc.qfit, Rat(3 * Cardinality(Range(core) \cap qreg), 10)),
        part |-> acc.part]

EmptyAcc == [nodes |-> <<>>, clusters_used |-> <<>>, mcur |-> Zero, qfit |-> Zero,
             part |-> Zero]

_spine_invariant(gr, cluster_hits, qreg, m) ==
    LET cs == Take(cluster_hits, 2)
        run[i \in 0..Len(cs)] ==
            IF i = 0 THEN EmptyAcc ELSE InvariantStep(gr, cs[i], qreg, m, run[i - 1])
        r == run[Len(cs)]
    IN Spine("invariant", _dedupe(r.nodes), r.clusters_used,
             RatAdd(RatAdd(RatTimes(r.qfit, 14, 10), RatTimes(r.part, 12, 10)), r.mcur),
             [k \in {"QFit", "Invariant", "MCurrent", "ClosureRisk"} |->
                 CASE k = "QFit" -> r.qfit
                   [] k = "Invariant" -> r.part
                   [] k = "MCurrent" -> r.mcur
                   [] OTHER -> Zero])

_spine_tension(gr, cluster_hits, qreg, m) ==
    LET cs == Take(cluster_hits, 2)
        run[i \in 0..Len(cs)] ==
            IF i = 0 THEN EmptyAcc ELSE TensionStep(gr, cs[i], qreg, m, run[i - 1])
        r == run[Len(cs)]
    IN Spine("tension", _dedupe(r.nodes), r.clusters_used,
             RatAdd(RatAdd(RatTimes(r.qfit, 11, 10), RatTimes(r.part, 16, 10)), r.mcur),
             [k \in {"QFit", "Tension", "MCurrent", "ClosureRisk"} |->
                 CASE k = "QFit" -> r.qfit
                   [] k = "Tension" -> r.part
                   [] k = "MCurrent" -> r.mcur
                   [] OTHER -> Zero])

\* dominance(c) of _spine_delta
dominance(c) == LET ts == top_share(c) IN Rat(ts.top, ts.total)

\* max(others, key=..., default=primary): the first of the largest
DeltaTarget(all_clusters, primary) ==
    LET others == SelectSeq(all_clusters, LAMBDA c : c.cluster_id # primary.cluster_id)
        gap(c) == RatAbsDiff(dominance(c), dominance(primary))
    IN IF others = <<>> THEN primary
       ELSE others[CHOOSE i \in 1..Len(others) :
                      /\ \A j \in 1..Len(others) : ~RatLess(gap(others[i]), gap(others[j]))
                      /\ \A j \in 1..(i - 1) : RatLess(gap(others[j]), gap(others[i]))]

_spine_delta(gr, all_clusters, cluster_hits, qreg, m) ==
    IF all_clusters = <<>> THEN Spine("delta", <<>>, <<>>, Zero, EmptyMap)
    ELSE LET primary == IF cluster_hits # <<>> THEN cluster_hits[1] ELSE all_clusters[1]
             target == DeltaTarget(all_clusters, primary)
             best == RatAbsDiff(dominance(target), dominance(primary))
             cs == <<primary, target>>
             run[i \in 0..Len(cs)] ==
                 IF i = 0 THEN EmptyAcc ELSE DeltaStep(gr, cs[i], qreg, m, run[i - 1])
             r == run[Len(cs)]
         IN Spine("delta", _dedupe(r.nodes), r.clusters_used,
                  RatAdd(RatAdd(r.qfit, RatTimes(best, 39, 10)), r.mcur),
                  [k \in {"QFit", "Delta", "MCurrent", "ClosureRisk"} |->
                      CASE k = "QFit" -> r.qfit
                        [] k = "Delta" -> RatTimes(best, 3, 1)
                        [] k = "MCurrent" -> r.mcur
                        [] OTHER -> Zero])

\* spines.sort(key=lambda s: s.score, reverse=True): stable
RECURSIVE InsertSpine(_, _)
InsertSpine(sorted, x) ==
    IF sorted = <<>> \/ RatLess(sorted[1].score, x.score) THEN <<x>> \o sorted
    ELSE <<sorted[1]>> \o InsertSpine(Tail(sorted), x)

SortSpines(spine_list) ==
    LET run[i \in 0..Len(spine_list)] ==
            IF i = 0 THEN <<>> ELSE InsertSpine(run[i - 1], spine_list[i])
    IN run[Len(spine_list)]

\* build_spines without the final sort
build_spines_unsorted(gr, cluster_seq, question_terms, m, spine_params) ==
    LET qreg == _question_region(gr, question_terms)
        hits == SelectSeq(cluster_seq, LAMBDA c : Range(c.members) \cap qreg # {})
        cluster_hits ==
            IF hits # <<>> THEN hits
            ELSE Take(SortDesc(cluster_seq,
                               [i \in 1..Len(cluster_seq) |->
                                   SumValues(cluster_seq[i].support_profile)]),
                      3)
        inv == _spine_invariant(gr, cluster_hits, qreg, m)
        ten == _spine_tension(gr, cluster_hits, qreg, m)
        delt == _spine_delta(gr, cluster_seq, cluster_hits, qreg, m)
    IN <<inv, ten, delt>>

build_spines(gr, cluster_seq, question_terms, m, spine_params) ==
    LET qreg == _question_region(gr, question_terms)
        hits == SelectSeq(cluster_seq, LAMBDA c : Range(c.members) \cap qreg # {})
        cluster_hits ==
            IF hits # <<>> THEN hits
            ELSE Take(SortDesc(cluster_seq,
                               [i \in 1..Len(cluster_seq) |->
                                   SumValues(cluster_seq[i].support_profile)]),
                      3)
        inv == _spine_invariant(gr, cluster_hits, qreg, m)
        ten == _spine_tension(gr, cluster_hits, qreg, m)
        delt == _spine_delta(gr, cluster_seq, cluster_hits, qreg, m)
    IN SortSpines(<<inv, ten, delt>>)

(***************************************************************************)
(* interpreter_v1.py: presentation                                         *)
(***************************************************************************)
STOP_DISPLAY_TERMS ==
    {"and", "the", "a", "an", "of", "to", "in", "on", "by", "as", "at", "for", "from",
     "with", "not", "no", "nor", "or", "but",
     "is", "are", "was", "were", "be", "been", "being",
     "this", "that", "these", "those",
     "his", "her", "their", "our", "your", "my", "thy", "thine", "thee", "thou",
     "i", "you", "he", "she", "it", "we", "they",
     "what", "who", "whom", "whose", "which", "when", "where", "why", "how"}

\* nid.replace("C:concept::", "").replace("T:", "") on the ids of this model
_node_label(nid) ==
    IF \E w \in Words : nid = "C:concept::" \o w
    THEN CHOOSE w \in Words : nid = "C:concept::" \o w
    ELSE IF \E w \in Words : nid = "T:" \o w
    THEN CHOOSE w \in Words : nid = "T:" \o w
    ELSE nid

\* _node_label(nid).strip().lower() in STOP_DISPLAY_TERMS
_is_stop_node(nid) == _label(nid) \in STOP_DISPLAY_TERMS

NO_STABLE_SPINE == "No stable semantic spine could be formed under current thresholds."

DominantLine(spine_type) ==
    "Across the analysed corpora, the dominant structure relates to " \o spine_type \o "."

\* answer_lines and context of main after choose_spines_for_output; the model
\* has fewer than six corpora, so context is kept as the set of its entries
Presentation(gr, chosen_spines) ==
    IF chosen_spines # <<>>
    THEN LET primary == chosen_spines[1]
             shown == Take(SelectSeq(primary.nodes, LAMBDA nid : ~_is_stop_node(nid)), 5)
             listed == IF shown = <<>> THEN Take(primary.nodes, 3) ELSE shown
             known == {nid \in Range(primary.nodes) : nid \in NodeIds(gr)}
         IN [answer_lines |->
                <<DominantLine(primary.spine_type)>>
                    \o [i \in 1..Len(listed) |-> "- " \o _node_label(listed[i])],
             context |->
                UNION {{c \in DOMAIN NodeOf(gr, nid).corpus_support :
                           NodeOf(gr, nid).corpus_support[c] > 0} : nid \in known}]
    ELSE [answer_lines |-> <<NO_STABLE_SPINE>>, context |-> {}]

(***************************************************************************)
(* cluster.py: merge_clusters as a whole, compute_bridges                  *)
(***************************************************************************)
\* while merged: ... ; return cluster_list
RECURSIVE merge_clusters(_, _, _)
merge_clusters(gr, cluster_seq, cluster_params) ==
    LET r == merge_pass(gr, cluster_seq, [i \in 1..Len(cluster_seq) |-> <<i>>],
                        cluster_params)
    IN IF r.merged THEN merge_clusters(gr, r.out, cluster_params) ELSE r.out

Flatten(seqs) ==
    LET run[i \in 0..Len(seqs)] == IF i = 0 THEN <<>> ELSE run[i - 1] \o seqs[i]
    IN run[Len(seqs)]

Occurrences(xs, x) == Cardinality({i \in 1..Len(xs) : xs[i] = x})

\* cluster_by_id[cid] and core_set_by_cluster[cid]: the last cluster with that id
PositionOf(cluster_seq, cid) ==
    MaxOf({k \in 1..Len(cluster_seq) : cluster_seq[k].cluster_id = cid})

\* B1 appending the shared node to the first of its clusters only
SharedCoreAppendsToFirst(cluster_seq) ==
    LET scan == Flatten([k \in 1..Len(cluster_seq) |->
                            [i \in 1..Len(cluster_seq[k].core) |->
                                [nid |-> cluster_seq[k].core[i],
                                 cid |-> cluster_seq[k].cluster_id]]])
        nids == _dedupe([i \in 1..Len(scan) |-> scan[i].nid])
        cids(nid) == LET own == SelectSeq(scan, LAMBDA x : x.nid = nid)
                     IN [i \in 1..Len(own) |-> own[i].cid]
    IN Flatten([j \in 1..Len(nids) |->
                   IF Len(cids(nids[j])) >= 2
                   THEN <<<<PositionOf(cluster_seq, cids(nids[j])[1]), nids[j]>>>>
                   ELSE <<>>])

\* B1: the appends (position of the cluster, node id) of the shared-membership loop
SharedCoreAppends(cluster_seq) ==
    LET scan == Flatten([k \in 1..Len(cluster_seq) |->
                            [i \in 1..Len(cluster_seq[k].core) |->
                                [nid |-> cluster_seq[k].core[i],
                                 cid |-> cluster_seq[k].cluster_id]]])
        nids == _dedupe([i \in 1..Len(scan) |-> scan[i].nid])
        cids(nid) == LET own == SelectSeq(scan, LAMBDA x : x.nid = nid)
                     IN [i \in 1..Len(own) |-> own[i].cid]
    IN Flatten([j \in 1..Len(nids) |->
                   IF Len(cids(nids[j])) >= 2
                   THEN [i \in 1..Len(cids(nids[j])) |->
                            <<PositionOf(cluster_seq, cids(nids[j])[i]), nids[j]>>]
                   ELSE <<>>])

\* B2 for the core node nid of the cluster at position p: hits and its appends
StrongLinkAppends(gr, cluster_seq, cluster_params, p, nid) ==
    LET c == cluster_seq[p]
        core_set(cid) == Range(cluster_seq[PositionOf(cluster_seq, cid)].core)
        strong == SelectSeq(neighbors(gr, nid),
                            LAMBDA e : e.weight >= cluster_params.edge_min)
        hit_ids == Flatten([i \in 1..Len(strong) |->
                       LET others == SelectSeq(cluster_seq,
                                         LAMBDA o : /\ o.cluster_id # c.cluster_id
                                                    /\ strong[i].dst \in core_set(o.cluster_id))
                       IN [k \in 1..Len(others) |-> others[k].cluster_id]])
        order == _dedupe(hit_ids)
    IN Flatten([j \in 1..Len(order) |->
                   IF Occurrences(hit_ids, order[j]) >= 2
                   THEN <<<<p, nid>>, <<PositionOf(cluster_seq, order[j]), nid>>>>
                   ELSE <<>>])

BridgeAppends(gr, cluster_seq, cluster_params) ==
    SharedCoreAppends(cluster_seq)
        \o Flatten([p \in 1..Len(cluster_seq) |->
                       Flatten([i \in 1..Len(cluster_seq[p].core) |->
                                   StrongLinkAppends(gr, cluster_seq, cluster_params, p,
                                                     cluster_seq[p].core[i])])])

\* compute_bridges mutates the clusters in place; the result is the list afterwards
compute_bridges(gr, cluster_seq, cluster_params) ==
    LET appends == BridgeAppends(gr, cluster_seq, cluster_params)
    IN [k \in 1..Len(cluster_seq) |->
           LET mine == SelectSeq(appends, LAMBDA a : a[1] = k)
           IN [cluster_seq[k] EXCEPT
                  !.bridge_nodes = @ \o [i \in 1..Len(mine) |-> mine[i][2]]]]

(***************************************************************************)
(* interpreter_v1.py: main from select_seeds to the answer, over small     *)
(* graphs                                                                  *)
(***************************************************************************)
\* BOOT and TIGHT; seed_min in thirds, edge_min in millionths
BOOT == [seed_min |-> 3 * 1, seed_sep |-> 1, edge_min |-> 5 * 10000, core_size |-> 3]

TIGHT == [seed_min |-> 3 * 3, seed_sep |-> 2, edge_min |-> 55 * 10000, core_size |-> 7]

\* the parameter records main builds for mode P and question terms q_terms
MainParams(P, q_terms) ==
    [seed |-> [seed_min |-> P.seed_min, seed_separation_distance |-> P.seed_sep],
     cluster |-> [edge_min |-> P.edge_min, merge_overlap |-> 50,
                  core_size |-> P.core_size, max_growth_depth |-> 2],
     spine |-> [max_spines_shown |-> 2],
     m |-> [strength |-> 15],
     q_terms |-> q_terms]

\* a term, three concepts (one of them the glue word "the") and a tension
MainNodes ==
    <<GraphNode("T:love", TERM, 7, [c \in {"A"} |-> 7], <<>>, None),
      GraphNode("C:concept::love", CONCEPT, 10, [c \in Corpora |-> 5], <<>>, None),
      GraphNode("C:concept::the", CONCEPT, 10, [c \in Corpora |-> 5], <<>>, None),
      GraphNode("C:concept::fear", CONCEPT, 6, [c \in {"B"} |-> 6], <<>>, None),
      GraphNode(NodeName(1), TENSION, 5, [c \in {"A"} |-> 5], <<>>, None)>>

\* the pairs of MainNodes an edge may join
MainEdgeEnds == <<<<1, 2>>, <<2, 4>>, <<2, 5>>, <<3, 2>>, <<4, 5>>>>

MainEdgeWeights == {0, 40 * 10000, 60 * 10000}

RECURSIVE EdgesInto(_, _, _, _)
EdgesInto(gr, present, weights, i) ==
    IF i > Len(MainEdgeEnds) THEN gr
    ELSE LET a == MainEdgeEnds[i][1]
             b == MainEdgeEnds[i][2]
         IN IF weights[i] = 0 \/ a \notin present \/ b \notin present
            THEN EdgesInto(gr, present, weights, i + 1)
            ELSE EdgesInto(add_edge(gr, GraphEdge(MainNodes[a].node_id,
                                                  MainNodes[b].node_id, SUPPORTS,
                                                  weights[i], <<>>)),
                           present, weights, i + 1)

\* the graph holding the nodes at the positions in present and the chosen edges
MainGraph(present, weights) ==
    EdgesInto(GraphOf([EmptyGraph EXCEPT !.entropy_by_corpus = EntropyOf],
                      SelectSeq(MainNodes, LAMBDA node :
                          \E k \in present : MainNodes[k].node_id = node.node_id)),
              present, weights, 1)

MainGraphs ==
    {MainGraph(present, weights) :
        present \in SUBSET (1..Len(MainNodes)),
        weights \in [1..Len(MainEdgeEnds) -> MainEdgeWeights]}

InitMain ==
    /\ g \in MainGraphs
    /\ \E P \in {BOOT, TIGHT} : \E q \in {<<>>, <<"love">>} : params = MainParams(P, q)
    /\ pc = "graph"
    /\ calls = 0
    /\ essence_of = EmptyMap
    /\ hist = <<>>
    /\ prev_g = EmptyMap
    /\ before_first = EmptyMap
    /\ after_first = EmptyMap
    /\ seeds = <<>>
    /\ clusters = <<>>
    /\ cluster_list = <<>>
    /\ passes = 0
    /\ spines = <<>>
    /\ chosen = <<>>
    /\ lengths = <<>>
    /\ lineage = <<>>
    /\ answer = <<>>
    /\ raised = <<>>

\* seeds = select_seeds(g, seed_params, cluster_params)
MainSelectSeeds ==
    /\ pc = "graph"
    /\ seeds' = select_seeds(g, params.seed, params.cluster)
    /\ pc' = "seeded"
    /\ UNCHANGED <<g, params, calls, essence_of, hist, prev_g, before_first,
                   after_first, clusters, cluster_list, passes, spines, chosen,
                   lengths, lineage, answer, raised>>

\* clusters = merge_clusters(g, clusters, cluster_params);
\* compute_bridges(g, clusters, cluster_params)
MainMergeAndBridge ==
    /\ pc = "seeded"
    /\ Len(clusters) = Len(seeds)
    /\ cluster_list' = compute_bridges(g, merge_clusters(g, clusters, params.cluster),
                                        params.cluster)
    /\ pc' = "bridged"
    /\ UNCHANGED <<g, params, calls, essence_of, hist, prev_g, before_first,
                   after_first, seeds, clusters, passes, spines, chosen,
                   lengths, lineage, answer, raised>>

\* spines = build_spines(g, clusters, q_terms, m_current, spine_params)
MainBuildSpines ==
    /\ pc = "bridged"
    /\ spines' = build_spines(g, cluster_list, params.q_terms, params.m, params.spine)
    /\ pc' = "spines"
    /\ UNCHANGED <<g, params, calls, essence_of, hist, prev_g, before_first,
                   after_first, seeds, clusters, cluster_list, passes, chosen,
                   lengths, lineage, answer, raised>>

\* the if chosen: ... else: ... of main
Present ==
    /\ pc = "chosen"
    /\ answer' = Presentation(g, chosen)
    /\ pc' = "answered"
    /\ UNCHANGED <<g, params, calls, essence_of, hist, prev_g, before_first,
                   after_first, seeds, clusters, cluster_list, passes, spines, chosen,
                   lengths, lineage, raised>>

NextMain ==
    \/ MainSelectSeeds
    \/ GrowCluster
    \/ MainMergeAndBridge
    \/ MainBuildSpines
    \/ ChooseSpines
    \/ Present

SpecMain == InitMain /\ [][NextMain]_vars

(***************************************************************************)
(* Properties of the run from select_seeds to the answer.                  *)
(***************************************************************************)
\* C11: when no seed passes the minimum score, so that there is no cluster, the
\* run ends in the "no stable spine" outcome: no spine is chosen and none is
\* presented as the dominant structure.
C11_NoSeedMeansNoStableSpine ==
    (pc = "answered" /\ seeds = <<>>) =>
        /\ cluster_list = <<>>
        /\ chosen = <<>>
        /\ answer.answer_lines = <<NO_STABLE_SPINE>>

(***************************************************************************)
(* Calls that name ids absent from the node store                          *)
(***************************************************************************)
KeyError == "KeyError"

\* an id no ensure_node call of this model creates
UnknownId == NodeName(9)

\* add_edge with any endpoints: self.adj[edge.src] and self.adj[edge.dst] raise
\* KeyError for an absent key, the second one after the first append was made
add_edge_outcome(gr, edge) ==
    IF edge.src \notin DOMAIN gr.adj THEN [g |-> gr, raised |-> KeyError]
    ELSE IF edge.dst \notin DOMAIN gr.adj
    THEN [g |-> [gr EXCEPT !.adj[edge.src] = Append(@, edge)], raised |-> KeyError]
    ELSE [g |-> add_edge(gr, edge), raised |-> None]

\* _compute_cluster_profiles with any members: g.nodes[nid] raises KeyError for
\* an absent member before any field of the cluster is assigned
profile_outcome(gr, cluster, cluster_params) ==
    IF Range(cluster.members) \subseteq NodeIds(gr)
    THEN [cluster |-> compute_cluster_profiles(gr, cluster, cluster_params),
          raised |-> None]
    ELSE [cluster |-> cluster, raised |-> KeyError]

MaxEdgeCalls == 2

\* a graph of three nodes and no edge, as three ensure_node calls leave it
UnknownGraphs ==
    {ensure_node(
        ensure_node(
            ensure_node([EmptyGraph EXCEPT !.entropy_by_corpus = EntropyOf],
                        DirectNode(NodeName(1), TENSION)),
            DirectNode(NodeName(2), CONCEPT)),
        DirectNode(NodeName(3), t)) : t \in {TENSION, TERM}}

InitUnknown ==
    /\ g \in UnknownGraphs
    /\ params = EmptyMap
    /\ pc = "build"
    /\ calls = 0
    /\ essence_of = EmptyMap
    /\ hist = <<>>
    /\ prev_g = EmptyMap
    /\ before_first = EmptyMap
    /\ after_first = EmptyMap
    /\ seeds = <<>>
    /\ clusters = <<>>
    /\ cluster_list = <<>>
    /\ passes = 0
    /\ spines = <<>>
    /\ chosen = <<>>
    /\ lengths = <<>>
    /\ lineage = <<>>
    /\ answer = <<>>
    /\ raised = <<>>

\* g.add_edge(edge) with endpoints inside or outside the node store; the caller
\* goes on after a KeyError
AddEdgeCall ==
    /\ pc = "build"
    /\ calls < MaxEdgeCalls
    /\ \E src \in NodeIds(g) \cup {UnknownId} : \E dst \in NodeIds(g) \cup {UnknownId} :
          \E w \in DirectEdgeWeights :
             LET r == add_edge_outcome(g, GraphEdge(src, dst, SUPPORTS, w, <<>>))
             IN /\ Rank(src) < Rank(dst) \/ UnknownId \in {src, dst}
                /\ src # dst
                /\ g' = r.g
                /\ raised' = IF r.raised = None THEN raised ELSE Append(raised, r.raised)
    /\ calls' = calls + 1
    /\ UNCHANGED <<params, pc, essence_of, hist, prev_g, before_first, after_first,
                   seeds, clusters, cluster_list, passes, spines, chosen,
                   lengths, lineage, answer>>

\* _compute_cluster_profiles(g, cluster, params) on the members of a grown
\* cluster, with or without an unknown one among them
ProfileCall ==
    /\ pc = "seeded"
    /\ clusters # <<>>
    /\ Len(clusters) = Len(seeds)
    /\ \E extra \in {{}, {UnknownId}} :
          LET c == clusters[1]
              r == profile_outcome(
                       g,
                       Cluster(c.cluster_id, c.seed_node, c.seed_score,
                               Sorted(Range(c.members) \cup extra)),
                       params.cluster)
          IN /\ cluster_list' = <<r.cluster>>
             /\ raised' = IF r.raised = None THEN raised ELSE Append(raised, r.raised)
    /\ pc' = "profiled"
    /\ UNCHANGED <<g, params, calls, essence_of, hist, prev_g, before_first,
                   after_first, seeds, clusters, passes, spines, chosen,
                   lengths, lineage, answer>>

NextUnknown == AddEdgeCall \/ SelectSeeds \/ GrowCluster \/ ProfileCall

SpecUnknown == InitUnknown /\ [][NextUnknown]_vars

(***************************************************************************)
(* Unknown-node references                                                 *)
(***************************************************************************)
\* the graph without the edges whose destination is absent from the node store
Pruned(gr) ==
    [gr EXCEPT !.adj = [id \in DOMAIN gr.adj |->
                           SelectSeq(gr.adj[id], LAMBDA e : e.dst \in NodeIds(gr))]]

DanglingFrom(id) ==
    {i \in 1..Len(g.adj[id]) : g.adj[id][i].dst \notin NodeIds(g)}

\* C12: node_type of an id absent from the node store is the absent result, and
\* the destination of an edge whose destination is absent is never counted by
\* degree_strong, never visited by the seed-separation search and never added
\* by grow_cluster_from_seed: degrees, seeds and members are those of the graph
\* without such edges, and every member is in the node store.
C12_UnknownDestinationsIgnored ==
    /\ node_type(g, UnknownId) = None
    /\ \A id \in NodeIds(g) : \A edge_min \in {BOOT.edge_min, TIGHT.edge_min} :
          degree_strong(g, id, edge_min, DEGREE_ALLOWED_RELS, DEGREE_ALLOWED_NEIGHBORS)
              = degree_strong(Pruned(g), id, edge_min, DEGREE_ALLOWED_RELS,
                              DEGREE_ALLOWED_NEIGHBORS)
    /\ pc # "build" => seeds = select_seeds(Pruned(g), params.seed, params.cluster)
    /\ \A k \in 1..Len(clusters) :
          /\ Range(clusters[k].members) \subseteq NodeIds(g)
          /\ Range(clusters[k].members)
                 = grow_members(Pruned(g), clusters[k].seed_node, params.cluster)

\* two seeds, every cluster grown, and a strong edge to an absent id leaving a
\* seed
C12_Witness ==
    /\ pc = "seeded"
    /\ Len(seeds) = 2
    /\ Len(clusters) = 2
    /\ \E k \in 1..2 : \E i \in DanglingFrom(seeds[k][1]) :
          g.adj[seeds[k][1]][i].weight >= params.cluster.edge_min

\* C13: no call aborts on an unknown-node reference: add_edge with an endpoint
\* absent from the node store and profiling of a cluster with an absent member
\* complete without raising.
C13_NoCallRaises == raised = <<>>

(***************************************************************************)
(* Glue terms among the seeds                                              *)
(***************************************************************************)
\* C14: select_seeds never returns a CONCEPT node whose label is a glue term.
C14_NoGlueConceptSeed ==
    pc # "graph" =>
        \A k \in 1..Len(seeds) :
            ~(/\ node_type(g, seeds[k][1]) = CONCEPT
              /\ _label(seeds[k][1]) \in GLUE_TERMS)

(***************************************************************************)
(* The merge test                                                          *)
(***************************************************************************)
\* the largest single-corpus support of a cluster over its total support, 0 for
\* an empty profile
Dominance(c) ==
    LET sp == c.support_profile
    IN IF DOMAIN sp = {} \/ SumValues(sp) = 0 THEN Zero
       ELSE Rat(MaxOf({sp[k] : k \in DOMAIN sp}), SumValues(sp))

CoresOverlap(a, b) ==
    100 * Cardinality(Range(a.core) \cap Range(b.core))
        >= params.cluster.merge_overlap
               * Min(Cardinality(Range(a.core)), Cardinality(Range(b.core)))

DominanceClose(a, b) ==
    ~RatLess(Rat(35, 100), RatAbsDiff(Dominance(a), Dominance(b)))

ClustersSeen == Range(clusters) \cup Range(cluster_list)

\* C15: should_merge(a, b) holds exactly when both cores are non-empty, the
\* share of the smaller core lying in both cores is at least merge_overlap and
\* the dominances differ by at most 0.35; it gives the same for (b, a).
C15_ShouldMergeCharacterised ==
    pc \in {"merging", "merged"} =>
        \A i \in 1..Len(cluster_list) : \A j \in i..Len(cluster_list) :
            LET a == cluster_list[i]
                b == cluster_list[j]
                ab == should_merge(g, a, b, params.cluster)
            IN /\ ab <=> /\ a.core # <<>>
                         /\ b.core # <<>>
                         /\ CoresOverlap(a, b)
                         /\ DominanceClose(a, b)
               /\ ab <=> should_merge(g, b, a, params.cluster)

\* a finished run that merged twice, over clusters of which two have overlapping
\* cores of different sizes but dominances too far apart, and two have non-empty
\* cores that overlap too little
C15_Witness ==
    /\ pc = "merged"
    /\ passes = 3
    /\ \E a \in ClustersSeen : \E b \in ClustersSeen :
          /\ a.core # <<>> /\ b.core # <<>>
          /\ Len(a.core) # Len(b.core)
          /\ CoresOverlap(a, b)
          /\ ~DominanceClose(a, b)
    /\ \E a \in ClustersSeen : \E b \in ClustersSeen :
          /\ a.core # <<>> /\ b.core # <<>>
          /\ ~CoresOverlap(a, b)

(***************************************************************************)
(* compute_bridges on a list of profiled clusters over a graph with edges  *)
(***************************************************************************)
\* two concepts and a tension, each supported by both corpora
BridgeNodes ==
    <<DirectNode(NodeName(1), CONCEPT), DirectNode(NodeName(2), CONCEPT),
      DirectNode(NodeName(3), TENSION)>>

BridgeEdgeEnds == <<<<1, 2>>, <<1, 3>>, <<2, 3>>>>

\* no edge (0), or an edge below or above edge_min, in millionths
BridgeEdgeWeights == {0, 40 * 10000, 60 * 10000}

RECURSIVE BridgeEdgesInto(_, _, _)
BridgeEdgesInto(gr, ws, i) ==
    IF i > Len(BridgeEdgeEnds) THEN gr
    ELSE BridgeEdgesInto(
             IF ws[i] = 0 THEN gr
             ELSE add_edge(gr, GraphEdge(BridgeNodes[BridgeEdgeEnds[i][1]].node_id,
                                         BridgeNodes[BridgeEdgeEnds[i][2]].node_id,
                                         SUPPORTS, ws[i], <<>>)),
             ws, i + 1)

BridgeGraphs ==
    {BridgeEdgesInto(GraphOf([EmptyGraph EXCEPT !.entropy_by_corpus = EntropyOf],
                             BridgeNodes), ws, 1) :
        ws \in [1..Len(BridgeEdgeEnds) -> BridgeEdgeWeights]}

BridgeParams ==
    [edge_min |-> DefaultEdgeMin, merge_overlap |-> 60, core_size |-> 7,
     max_growth_depth |-> 2]

MaxBridgeClusters == 2

BridgeMemberLists ==
    {Sorted(S) : S \in (SUBSET {BridgeNodes[i].node_id : i \in 1..Len(BridgeNodes)}) \ {{}}}

InitBridge ==
    /\ g \in BridgeGraphs
    /\ params = [cluster |-> BridgeParams]
    /\ \E ms \in SeqsUpTo(BridgeMemberLists, MaxBridgeClusters) :
          clusters = [i \in 1..Len(ms) |->
                         compute_cluster_profiles(
                             g, Cluster("C" \o ToString(i), ms[i][1], 3 * 4, ms[i]),
                             BridgeParams)]
    /\ cluster_list = clusters
    /\ pc = "clustered"
    /\ calls = 0
    /\ essence_of = EmptyMap
    /\ hist = <<>>
    /\ prev_g = EmptyMap
    /\ before_first = EmptyMap
    /\ after_first = EmptyMap
    /\ seeds = <<>>
    /\ passes = 0
    /\ spines = <<>>
    /\ chosen = <<>>
    /\ lengths = <<>>
    /\ lineage = <<>>
    /\ answer = <<>>
    /\ raised = <<>>

\* compute_bridges(g, clusters, cluster_params)
ComputeBridges ==
    /\ pc = "clustered"
    /\ cluster_list' = compute_bridges(g, cluster_list, params.cluster)
    /\ pc' = "bridged"
    /\ UNCHANGED <<g, params, calls, essence_of, hist, prev_g, before_first,
                   after_first, seeds, clusters, passes, spines, chosen,
                   lengths, lineage, answer, raised>>

NextBridge == ComputeBridges

SpecBridge == InitBridge /\ [][NextBridge]_vars

(***************************************************************************)
(* Bridges                                                                 *)
(***************************************************************************)
Bridged == pc \in {"bridged", "spines", "chosen", "answered"}

\* C16: after compute_bridges every id in a cluster's bridge list is a core node
\* of that cluster which is also in the core of another cluster.
C16_BridgesAreSharedCoreNodes ==
    Bridged =>
        \A k \in 1..Len(cluster_list) :
            \A nid \in Range(cluster_list[k].bridge_nodes) :
                /\ nid \in Range(cluster_list[k].core)
                /\ \E j \in 1..Len(cluster_list) :
                      j # k /\ nid \in Range(cluster_list[j].core)

(***************************************************************************)
(* The greedy walk of select_seeds                                         *)
(***************************************************************************)
ScoreOf(id) == seed_score(g, id, params.cluster)

\* the positions of the seeds that come before n in the list sorted by descending
\* score (equal scores in the order of g.nodes) and lie within
\* seed_separation_distance hops of n
SeedNear(n) ==
    LET near == WithinSeedHops(g, params.cluster.edge_min, {n},
                               params.seed.seed_separation_distance)
        score == ScoreOf(n)
    IN {k \in 1..Len(seeds) :
           /\ seeds[k][1] \in near
           /\ \/ seeds[k][2] > score
              \/ seeds[k][2] = score /\ NodeIndex(g, seeds[k][1]) < NodeIndex(g, n)}

\* C17: select_seeds is the greedy walk in descending score order: a CONCEPT,
\* MOTIF or TENSION node is returned exactly when its score is at least seed_min
\* and no seed accepted before it lies within seed_separation_distance hops; the
\* list is in non-increasing score order, holds no id twice and no TERM node.
\* Stated of the list as select_seeds returns it, before the first cluster is
\* grown; growing leaves g, params and seeds as they are.
C17_GreedyWalkInScoreOrder ==
    (pc = "seeded" /\ clusters = <<>>) =>
        /\ \A n \in NodeIds(g) :
              node_type(g, n) \in SEED_ALLOWED_TYPES =>
                  (n \in SeedIds <=> /\ ScoreOf(n) >= params.seed.seed_min
                                     /\ SeedNear(n) = {})
        /\ \A i \in 1..Len(seeds) : \A j \in 1..Len(seeds) :
              i < j => /\ seeds[i][2] >= seeds[j][2]
                       /\ seeds[i][1] # seeds[j][1]
        /\ \A k \in 1..Len(seeds) :
              /\ node_type(g, seeds[k][1]) \in SEED_ALLOWED_TYPES
              /\ node_type(g, seeds[k][1]) # TERM
              /\ seeds[k][2] = ScoreOf(seeds[k][1])

\* two seeds of different scores, the higher one added to the graph later, one
\* candidate rejected for its score and one for a seed too close to it
C17_Witness ==
    /\ pc = "seeded"
    /\ clusters = <<>>
    /\ \E i \in 1..Len(seeds) : \E j \in 1..Len(seeds) :
          /\ seeds[i][2] > seeds[j][2]
          /\ NodeIndex(g, seeds[i][1]) > NodeIndex(g, seeds[j][1])
    /\ \E n \in NodeIds(g) \ SeedIds :
          /\ node_type(g, n) \in SEED_ALLOWED_TYPES
          /\ ScoreOf(n) < params.seed.seed_min
    /\ \E n \in NodeIds(g) \ SeedIds :
          /\ node_type(g, n) \in SEED_ALLOWED_TYPES
          /\ ScoreOf(n) >= params.seed.seed_min
          /\ SeedNear(n) # {}

(***************************************************************************)
(* Completeness of the growth                                              *)
(***************************************************************************)
GrowReach(c, k) == WithinGrowHops(g, params.cluster.edge_min, {c.seed_node}, k)

C19_AtMostOneMergePerPass ==
    pc \in {"merging", "merged"} =>
        \A k \in 1..passes : lengths[k] - lengths[k + 1] \in {0, 1}

\* C20: merge_clusters returns a fixed point: no two distinct clusters of the
\* returned list satisfy should_merge, and merge_clusters applied to the
\* returned list returns it unchanged.
C20_ReturnedListIsFixedPoint ==
    pc = "merged" =>
        /\ \A i \in 1..Len(cluster_list) : \A j \in 1..Len(cluster_list) :
              i # j => ~should_merge(g, cluster_list[i], cluster_list[j], params.cluster)
        /\ merge_clusters(g, cluster_list, params.cluster) = cluster_list

\* a run of two merging passes that returns two clusters with non-empty cores
C20_Witness ==
    /\ pc = "merged"
    /\ passes >= 3
    /\ \E i \in 1..Len(cluster_list) : \E j \in 1..Len(cluster_list) :
          /\ i # j
          /\ cluster_list[i].core # <<>>
          /\ cluster_list[j].core # <<>>

(***************************************************************************)
(* Shared core nodes are bridges                                           *)
(***************************************************************************)
\* the positions of the clusters whose core holds nid
CoreHolders(nid) ==
    {k \in 1..Len(cluster_list) : nid \in Range(cluster_list[k].core)}

\* C21: after compute_bridges every node id in the core of two or more clusters
\* is in the bridge list of each of those clusters.
C21_SharedCoreNodesAreBridges ==
    pc = "bridged" =>
        \A k \in 1..Len(cluster_list) : \A nid \in Range(cluster_list[k].core) :
            Cardinality(CoreHolders(nid)) >= 2 =>
                nid \in Range(cluster_list[k].bridge_nodes)

\* two clusters share one core node and each has a core node of its own
C21_Witness ==
    /\ pc = "bridged"
    /\ Len(cluster_list) = 2
    /\ Range(cluster_list[1].core) \cap Range(cluster_list[2].core) # {}
    /\ Range(cluster_list[1].core) \ Range(cluster_list[2].core) # {}
    /\ Range(cluster_list[2].core) \ Range(cluster_list[1].core) # {}

(***************************************************************************)
(* The order of the core                                                   *)
(***************************************************************************)
\* the semantic core score in tenths: (corpora x 2 + weight) x gluePenalty,
\* gluePenalty 0.4 for a glue label
SemanticCoreScore(nid) ==
    LET n == NodeOf(g, nid)
        corpora == {c \in DOMAIN n.corpus_support : n.corpus_support[c] > 0}
    IN (2 * Cardinality(corpora) + n.weight)
           * (IF _label(nid) \in GLUE_TERMS THEN 4 ELSE 10)

CoreCandidates(c) ==
    {nid \in Range(c.members) : node_type(g, nid) \in {CONCEPT, MOTIF, TENSION}}

\* C22: the core of a profiled cluster is the first core_size of its CONCEPT,
\* MOTIF and TENSION members in descending order of the semantic core score.
C22_CoreOrderedBySemanticScore ==
    \A k \in 1..Len(clusters) :
        LET c == clusters[k]
        IN /\ Range(c.core) \subseteq CoreCandidates(c)
           /\ Len(c.core) = Min(params.cluster.core_size, Cardinality(CoreCandidates(c)))
           /\ \A i \in 1..Len(c.core) : \A j \in 1..Len(c.core) :
                 i < j => SemanticCoreScore(c.core[i]) >= SemanticCoreScore(c.core[j])
           /\ \A x \in CoreCandidates(c) \ Range(c.core) : \A i \in 1..Len(c.core) :
                 SemanticCoreScore(c.core[i]) >= SemanticCoreScore(x)

(***************************************************************************)
(* Long essences: the builder's edge loops read the first ten terms and    *)
(* the first six concepts of an essence (builder.py:68-97).                *)
(***************************************************************************)
MaxTopIngest == 2

\* (n, again): one term, ten, eleven, and eleven with the first one repeated last
TopTermShapes ==
    {<<1, FALSE>>, <<TOP_TERMS, FALSE>>, <<TOP_TERMS + 1, FALSE>>,
     <<TOP_TERMS + 1, TRUE>>}

\* (n, low): one concept, six with a weak last one, seven
TopConceptShapes ==
    {<<1, FALSE>>, <<TOP_CONCEPTS, TRUE>>, <<TOP_CONCEPTS + 1, FALSE>>}

\* n terms t1..tn by descending weight; with `again` the last term repeats t1
TopTerms(n, again) ==
    [i \in 1..n |->
        [term |-> IF again /\ i = n /\ n > 1 THEN "t1" ELSE "t" \o ToString(i),
         weight |-> IF i = 1 THEN 12 ELSE 7]]

\* n concepts c1..cn by descending weight; with `low` the last one is weak
TopConcepts(n, low) ==
    [j \in 1..n |->
        [concept_id |-> "c" \o ToString(j),
         weight |-> IF low /\ j = n THEN 3 ELSE IF j = 1 THEN 12 ELSE 7]]

TopEssences(c) ==
    {[corpus_id |-> c, key_terms |-> TopTerms(ts[1], ts[2]),
      key_concepts |-> TopConcepts(cs[1], cs[2]),
      entropy |-> EntropyOf[c], provenance |-> <<DocOf[c]>>] :
        ts \in TopTermShapes, cs \in TopConceptShapes}

\* add_essence_to_graph(g, e, edge_min) on a long essence
AddTopEssence ==
    /\ pc = "build"
    /\ Len(hist) < MaxTopIngest
    /\ \E c \in Corpora :
         \E e \in (IF c \in DOMAIN essence_of THEN {essence_of[c]}
                   ELSE TopEssences(c)) :
            /\ g' = add_essence_to_graph(g, e, params.edge_min)
            /\ essence_of' = Put(essence_of, c, e)
            /\ hist' = Append(hist, c)
    /\ UNCHANGED <<params, pc, calls, prev_g, before_first, after_first, seeds,
                   clusters, cluster_list, passes, spines, chosen,
                   lengths, lineage, answer, raised>>

NextTop == AddTopEssence

SpecTop == Init /\ [][NextTop]_vars

\* every record of the adjacency lists
StoredEdges == UNION {Range(g.adj[id]) : id \in DOMAIN g.adj}

\* the pair (a, b) is a term among the first ten and a concept among the first
\* six of the essence e, whose edge carries the weight w
QualifiesIn(e, a, b, w) ==
    \E i \in 1..Min(10, Len(e.key_terms)) :
        \E j \in 1..Min(6, Len(e.key_concepts)) :
            /\ a = TermId(e.key_terms[i].term)
            /\ b = ConceptId(e.key_concepts[j].concept_id)
            /\ w = SupportWeight(e, e.key_terms[i], e.key_concepts[j])

\* C23: after any sequence of add_essence_to_graph calls with one edge_min,
\* every stored edge has relation SUPPORTS and a weight of at least
\* 0.6 * edge_min and at most 1.0, and joins a TERM node and a CONCEPT node
\* that stand among the first ten terms and the first six concepts of one
\* ingested essence; a term or concept at a later position brings no edge.
C23_EdgesAreAdmittedTopSupports ==
    \A ed \in StoredEdges :
        /\ ed.rel = SUPPORTS
        /\ 10 * ed.weight >= 6 * params.edge_min
        /\ ed.weight <= 100 * 10000
        /\ {node_type(g, ed.src), node_type(g, ed.dst)} = {TERM, CONCEPT}
        /\ \E c \in DOMAIN essence_of :
              \/ QualifiesIn(essence_of[c], ed.src, ed.dst, ed.weight)
              \/ QualifiesIn(essence_of[c], ed.dst, ed.src, ed.weight)

\* an essence with an eleventh term and one with a seventh concept were
\* ingested, one edge has weight 1.0, and a concept within the first six of
\* its essence was rejected for its weight with every term
C23_Witness ==
    /\ \E c \in DOMAIN essence_of : Len(essence_of[c].key_terms) > 10
    /\ \E c \in DOMAIN essence_of : Len(essence_of[c].key_concepts) > 6
    /\ \E ed \in StoredEdges : ed.weight = 100 * 10000
    /\ \E c \in DOMAIN essence_of :
          LET e == essence_of[c]
          IN \E j \in 1..Min(6, Len(e.key_concepts)) :
                 \A ed \in StoredEdges :
                     ed.evidence_corpora = <<c>> =>
                         ConceptId(e.key_concepts[j].concept_id)
                             \notin {ed.src, ed.dst}

(***************************************************************************)
(* build_spines on cluster lists around the question term "love"           *)
(***************************************************************************)
MaxRegionClusters == 2

\* every node of MainNodes, each edge of MainEdgeEnds absent or strong
RegionGraphs ==
    {MainGraph(1..Len(MainNodes), weights) :
        weights \in [1..Len(MainEdgeEnds) -> {0, 60 * 10000}]}

\* members: the concept of the question term with one or two more nodes
RegionMemberLists ==
    {Sorted(S \cup {"C:concept::love"}) :
        S \in {T \in SUBSET ({MainNodes[i].node_id : i \in 1..Len(MainNodes)}
                                \ {"C:concept::love"}) :
                  Cardinality(T) \in {1, 2}}}

InitRegion ==
    /\ g \in RegionGraphs
    /\ params = MainParams(BOOT, <<"love">>)
    /\ \E ms \in SeqsUpTo(RegionMemberLists, MaxRegionClusters) :
          /\ clusters = [i \in 1..Len(ms) |->
                            compute_cluster_profiles(
                                g, Cluster("C" \o ToString(i), "C:concept::love",
                                           3 * 4, ms[i]),
                                params.cluster)]
          /\ cluster_list = compute_bridges(g, clusters, params.cluster)
    /\ pc = "bridged"
    /\ calls = 0
    /\ essence_of = EmptyMap
    /\ hist = <<>>
    /\ prev_g = EmptyMap
    /\ before_first = EmptyMap
    /\ after_first = EmptyMap
    /\ seeds = <<>>
    /\ passes = 0
    /\ spines = <<>>
    /\ chosen = <<>>
    /\ lengths = <<>>
    /\ lineage = <<>>
    /\ answer = <<>>
    /\ raised = <<>>

NextRegion == MainBuildSpines

SpecRegion == InitRegion /\ [][NextRegion]_vars

\* the per-type multiplier of QFit, in hundredths
QFitMultiplier(spine_type) ==
    CASE spine_type = "invariant" -> 50
      [] spine_type = "tension" -> 35
      [] OTHER -> 30

\* the distinct nodes of the spine's node list that lie in the question region
SpineNodesInRegion(s) == Range(s.nodes) \cap _question_region(g, params.q_terms)

\* C24: the QFit entry of each of the three spines is the multiplier of its
\* type (0.5, 0.35, 0.3) times the number of distinct nodes of its node list
\* that lie in the question region, each node counted once.
C24_QFitCountsSpineNodesOnce ==
    \A k \in 1..Len(spines) :
        "QFit" \in DOMAIN spines[k].score_breakdown =>
            LET q == spines[k].score_breakdown["QFit"]
            IN 100 * q.n = QFitMultiplier(spines[k].spine_type)
                                * Cardinality(SpineNodesInRegion(spines[k])) * q.d

\* the clusters of cluster_list a spine names, by position
NamedBy(s) ==
    {k \in 1..Len(cluster_list) : cluster_list[k].cluster_id \in Range(s.clusters)}

\* the foreground bonus of every named cluster, each taken once
BonusOnce(s) ==
    LET ks == NamedBy(s)
        ordered == SelectSeq([k \in 1..Len(cluster_list) |-> k], LAMBDA k : k \in ks)
        run[i \in 0..Len(ordered)] ==
            IF i = 0 THEN Zero
            ELSE RatAdd(run[i - 1],
                        _cluster_foreground_bonus(cluster_list[ordered[i]], params.m))
    IN run[Len(ordered)]

\* C25: whenever the cluster list is not empty the delta spine names exactly two
\* different clusters, never the same cluster twice, and its MCurrent entry
\* holds each cluster's foreground bonus once.
C25_DeltaNamesTwoDifferentClusters ==
    \A k \in 1..Len(spines) :
        (spines[k].spine_type = "delta" /\ cluster_list # <<>>) =>
            /\ Len(spines[k].clusters) = 2
            /\ spines[k].clusters[1] # spines[k].clusters[2]
            /\ spines[k].score_breakdown["MCurrent"] = BonusOnce(spines[k])

\* the number of records from u to v with relation rel and weight w in adj[u]
RecordCount(u, v, rel, w) ==
    Cardinality({i \in 1..Len(g.adj[u]) :
                    /\ g.adj[u][i].src = u
                    /\ g.adj[u][i].dst = v
                    /\ g.adj[u][i].rel = rel
                    /\ g.adj[u][i].weight = w})

\* C26: after any sequence of add_edge calls on existing nodes the adjacency
\* store is symmetric as a multiset: every record of adj[u] starts at u, and the
\* number of records u -> v with (rel, weight) in adj[u] equals the number of
\* records v -> u with the same (rel, weight) in adj[v].
C26_AdjacencySymmetricAsMultiset ==
    \A u \in DOMAIN g.adj :
        \A i \in 1..Len(g.adj[u]) :
            LET e == g.adj[u][i]
            IN /\ e.src = u
               /\ e.dst \in DOMAIN g.adj
               /\ RecordCount(u, e.dst, e.rel, e.weight)
                      = RecordCount(e.dst, u, e.rel, e.weight)

\* two equal edges and one of another weight join the same pair of nodes
C26_Witness ==
    \E u \in DOMAIN g.adj : \E v \in DOMAIN g.adj :
        /\ u # v
        /\ RecordCount(u, v, SUPPORTS, 60 * 10000) = 2
        /\ RecordCount(u, v, SUPPORTS, 40 * 10000) = 1

\* C27: of the spine list produced by build_spines, the primary returned by
\* choose_spines_for_output has the maximum score among all spines, and the
\* second, when present, is the highest-ranked remaining spine whose type
\* differs from the primary's.
C27_PrimaryHasMaximumScore ==
    (pc \in {"chosen", "answered"} /\ spines # <<>>) =>
        /\ chosen # <<>>
        /\ chosen[1] = spines[1]
        /\ \A k \in 1..Len(spines) : ~RatLess(chosen[1].score, spines[k].score)
        /\ Len(chosen) = 2 =>
              \E j \in 2..Len(spines) :
                  /\ chosen[2] = spines[j]
                  /\ spines[j].spine_type # chosen[1].spine_type
                  /\ \A k \in 2..Len(spines) :
                        spines[k].spine_type # chosen[1].spine_type =>
                            /\ j <= k
                            /\ ~RatLess(chosen[2].score, spines[k].score)

\* two spines were chosen, and the spine built first is not the primary
C27_Witness ==
    /\ pc = "chosen"
    /\ Len(chosen) = 2
    /\ chosen[1].spine_type # "invariant"
    /\ RatLess(chosen[2].score, chosen[1].score)

(***************************************************************************)
(* seed_score on one node with up to five supporting corpora and edges of  *)
(* every kind that degree_strong tells apart                               *)
(***************************************************************************)
MaxSupport == 5

MaxStrong == 10

ScoreCorpus(i) == "K" \o ToString(i)

ScoreEntropies == {30, 45, 69, 70}

\* corpus_support of the scored node: k corpora, the first one with contribution
\* 0 when `zero`
ScoreSupport(k, zero) ==
    [c \in {ScoreCorpus(i) : i \in 1..k} |->
        IF zero /\ c = ScoreCorpus(1) THEN 0 ELSE 5]

\* the node n1 to score, with a CONCEPT, a TERM and a MOTIF to link it to
ScoreNodes(type, k, zero) ==
    <<GraphNode(NodeName(1), type, 10, ScoreSupport(k, zero), <<>>, None),
      DirectNode(NodeName(2), CONCEPT),
      DirectNode(NodeName(3), TERM),
      DirectNode(NodeName(4), MOTIF)>>

\* strong SUPPORTS edges to the concept, then one edge of each further kind
ScoreEdges(strong, weak, causal, term, motif) ==
    [i \in 1..strong |->
        GraphEdge(NodeName(1), NodeName(2), SUPPORTS, 60 * 10000, <<>>)]
    \o (IF weak THEN <<GraphEdge(NodeName(1), NodeName(2), SUPPORTS, 40 * 10000, <<>>)>>
        ELSE <<>>)
    \o (IF causal THEN <<GraphEdge(NodeName(1), NodeName(2), CAUSAL, 60 * 10000, <<>>)>>
        ELSE <<>>)
    \o (IF term THEN <<GraphEdge(NodeName(1), NodeName(3), SUPPORTS, 60 * 10000, <<>>)>>
        ELSE <<>>)
    \o (IF motif THEN <<GraphEdge(NodeName(4), NodeName(1), ANALOGOUS, 60 * 10000, <<>>)>>
        ELSE <<>>)

ScoreGraph(type, k, zero, e1, e2, edges) ==
    LET entropies == [c \in {ScoreCorpus(i) : i \in 1..MaxSupport} \cup Corpora |->
                         IF c = ScoreCorpus(1) THEN e1
                         ELSE IF c = ScoreCorpus(2) THEN e2 ELSE 50]
        g0 == GraphOf([EmptyGraph EXCEPT !.entropy_by_corpus = entropies],
                      ScoreNodes(type, k, zero))
        run[i \in 0..Len(edges)] ==
            IF i = 0 THEN g0 ELSE add_edge(run[i - 1], edges[i])
    IN run[Len(edges)]

InitScore ==
    /\ \E type \in {CONCEPT, TENSION} : \E k \in 0..MaxSupport : \E zero \in BOOLEAN :
          \E e1 \in ScoreEntropies : \E e2 \in ScoreEntropies :
             \E strong \in {0, 1, 3, MaxStrong - 1, MaxStrong} :
                \E weak \in BOOLEAN : \E causal \in BOOLEAN :
                   \E term \in BOOLEAN : \E motif \in BOOLEAN :
                      g = ScoreGraph(type, k, zero, e1, e2,
                                     ScoreEdges(strong, weak, causal, term, motif))
    /\ params = [cluster |-> BridgeParams]
    /\ pc = "build"
    /\ calls = 0
    /\ essence_of = EmptyMap
    /\ hist = <<>>
    /\ prev_g = EmptyMap
    /\ before_first = EmptyMap
    /\ after_first = EmptyMap
    /\ seeds = <<>>
    /\ clusters = <<>>
    /\ cluster_list = <<>>
    /\ passes = 0
    /\ spines = <<>>
    /\ chosen = <<>>
    /\ lengths = <<>>
    /\ lineage = <<>>
    /\ answer = <<>>
    /\ raised = <<>>

\* seed_score(g, "n1", cluster_params), kept as the pair (id, score)
ScoreCall ==
    /\ pc = "build"
    /\ seeds' = <<<<NodeName(1), seed_score(g, NodeName(1), params.cluster)>>>>
    /\ pc' = "seeded"
    /\ UNCHANGED <<g, params, calls, essence_of, hist, prev_g, before_first,
                   after_first, clusters, cluster_list, passes, spines, chosen,
                   lengths, lineage, answer, raised>>

NextScore == ScoreCall

SpecScore == InitScore /\ [][NextScore]_vars

\* the corpora of n's corpus_support with a positive contribution
PositiveCorpora(n) == {c \in DOMAIN n.corpus_support : n.corpus_support[c] > 0}

\* the records of adj[id] that degree_strong counts, by position
StrongRecords(id) ==
    {i \in 1..Len(g.adj[id]) :
        /\ g.adj[id][i].weight >= params.cluster.edge_min
        /\ g.adj[id][i].rel # CAUSAL
        /\ node_type(g, g.adj[id][i].dst) \in {CONCEPT, MOTIF, TENSION}}

\* the entropies of the corpora of n's corpus_support
SupportEntropies(n) ==
    {g.entropy_by_corpus[c] :
        c \in (DOMAIN n.corpus_support) \cap (DOMAIN g.entropy_by_corpus)}

\* C28: seed_score(node) = A + B + C + D, where A is 0/2/3/4 for <=1/2/3/>=4
\* corpora with positive contribution, B = min(3, degree/3) over the edges with
\* weight >= edge_min, a relation other than CAUSAL and a CONCEPT, MOTIF or
\* TENSION at the far end, C = 1 for a TENSION node only, and D = 1 exactly when
\* the corpora of the node's corpus support include one of entropy < 0.45 and
\* one of entropy >= 0.70; so 0 <= score <= 9. Scores are in thirds.
C28_SeedScoreIsSumOfFour ==
    (pc = "seeded" /\ seeds # <<>>) =>
        LET id == seeds[1][1]
            n == NodeOf(g, id)
            count == Cardinality(PositiveCorpora(n))
            A == CASE count <= 1 -> 0 [] count = 2 -> 2 [] count = 3 -> 3 [] OTHER -> 4
            B3 == Min(3 * 3, Cardinality(StrongRecords(id)))
            C == IF n.type = TENSION THEN 1 ELSE 0
            D == IF (\E e \in SupportEntropies(n) : e < 45)
                    /\ (\E e \in SupportEntropies(n) : e >= 70) THEN 1 ELSE 0
        IN /\ seeds[1][2] = 3 * A + B3 + 3 * C + 3 * D
           /\ seeds[1][2] >= 0
           /\ seeds[1][2] <= 3 * 9

\* the highest score: a TENSION node of five corpora, a cold and a hot one among
\* them, with more than nine counted edges beside a CAUSAL one
C28_Witness ==
    /\ pc = "seeded"
    /\ seeds # <<>>
    /\ seeds[1][2] = 3 * 9
    /\ Cardinality(PositiveCorpora(NodeOf(g, seeds[1][1]))) = 5
    /\ Cardinality(StrongRecords(seeds[1][1])) > 9
    /\ \E i \in 1..Len(g.adj[seeds[1][1]]) : g.adj[seeds[1][1]][i].rel = CAUSAL

\* seed, members, core and tension list of the cluster c fit together
WellFormed(c) ==
    /\ c.seed_node \in Range(c.members)
    /\ \A i \in 1..(Len(c.members) - 1) : Rank(c.members[i]) < Rank(c.members[i + 1])
    /\ Range(c.members) \subseteq NodeIds(g)
    /\ Range(c.core) \subseteq Range(c.members)
    /\ Cardinality(Range(c.core)) = Len(c.core)
    /\ Len(c.core) <= params.cluster.core_size
    /\ \A nid \in Range(c.core) : node_type(g, nid) # TERM
    /\ Range(c.tension_nodes) \subseteq Range(c.members)

\* C29: every cluster the run produces, grown from a seed of select_seeds and
\* taken through the passes of merge_clusters, is well formed: the seed is a
\* member, the member list is sorted without duplicates, every member is in the
\* node store, the core is a duplicate-free part of the members with at most
\* core_size entries and no TERM node, and the tension list is part of the
\* members.
C29_ClustersWellFormed ==
    /\ \A k \in 1..Len(clusters) : WellFormed(clusters[k])
    /\ \A k \in 1..Len(cluster_list) : WellFormed(cluster_list[k])

\* a merged cluster with a TERM member, more core candidates than core_size and
\* a tension node
C29_Witness ==
    \E k \in 1..Len(cluster_list) :
        LET c == cluster_list[k]
        IN /\ Len(cluster_list) < Len(clusters)
           /\ \E nid \in Range(c.members) : node_type(g, nid) = TERM
           /\ Len(c.core) = params.cluster.core_size
           /\ Cardinality(CoreCandidates(c)) > Len(c.core)
           /\ c.tension_nodes # <<>>

(***************************************************************************)
(* select_seeds on graphs that only the builder has written                *)
(***************************************************************************)
MaxSeparation == 2

\* seeds = select_seeds(g, seed_params, cluster_params) in mode BOOT or TIGHT
\* with any seed_separation_distance, after each corpus was ingested at most
\* once, as main does
SeedBuilt ==
    /\ pc = "build"
    /\ \A c \in Corpora : Count(hist, c) <= 1
    /\ \E P \in {BOOT, TIGHT} : \E d \in 0..MaxSeparation :
          LET p == [MainParams(P, <<>>) EXCEPT !.seed.seed_separation_distance = d]
          IN /\ params' = p
             /\ seeds' = select_seeds(g, p.seed, p.cluster)
    /\ pc' = "seeded"
    /\ UNCHANGED <<g, calls, essence_of, hist, prev_g, before_first, after_first,
                   clusters, cluster_list, passes, spines, chosen,
                   lengths, lineage, answer, raised>>

NextSow == AddTopEssence \/ SeedBuilt

SpecSow == Init /\ [][NextSow]_vars

\* every stored edge joins a TERM node and a CONCEPT node
TermConceptEdgesOnly ==
    \A ed \in StoredEdges : {node_type(g, ed.src), node_type(g, ed.dst)} = {TERM, CONCEPT}

\* degree_strong of the node id over the seed-eligible neighbour types
EligibleDegree(id) ==
    degree_strong(g, id, params.cluster.edge_min, DEGREE_ALLOWED_RELS,
                  {CONCEPT, MOTIF, TENSION})

\* select_seeds returned the CONCEPT nodes with score >= seed_min, each once
SeedsAreScoredConcepts ==
    /\ Range([k \in 1..Len(seeds) |-> seeds[k][1]])
           = {id \in NodeIds(g) :
                 /\ node_type(g, id) = CONCEPT
                 /\ seed_score(g, id, params.cluster) >= params.seed.seed_min}
    /\ \A j \in 1..Len(seeds) : \A k \in 1..Len(seeds) :
          seeds[j][1] = seeds[k][1] => j = k

\* C30 (as stated): in a graph built only by add_essence_to_graph every edge
\* joins a TERM node to a CONCEPT node, degree_strong over the seed-eligible
\* neighbour types is 0 for every node, and select_seeds returns exactly the
\* CONCEPT nodes whose score is >= seed_min, whatever the separation distance.
C30_EveryNodeHasNoEligibleNeighbour ==
    pc = "seeded" =>
        /\ TermConceptEdgesOnly
        /\ \A id \in NodeIds(g) : EligibleDegree(id) = 0
        /\ SeedsAreScoredConcepts

\* C30 (amended): in a graph built only by add_essence_to_graph every edge
\* joins a TERM node to a CONCEPT node, degree_strong over the seed-eligible
\* neighbour types is 0 for every CONCEPT node (sub-score B of every candidate
\* is 0), and select_seeds returns exactly the CONCEPT nodes whose score is
\* >= seed_min, whatever the separation distance.
C30_BuiltGraphSeedsAllScoredConcepts ==
    pc = "seeded" =>
        /\ TermConceptEdgesOnly
        /\ \A id \in NodeIds(g) : node_type(g, id) = CONCEPT => EligibleDegree(id) = 0
        /\ SeedsAreScoredConcepts

\* two seeds hang on one term by edges of weight >= edge_min, the separation
\* distance is 2, and a concept scored below seed_min was left out
C30_Witness ==
    /\ pc = "seeded"
    /\ params.seed.seed_separation_distance = 2
    /\ \E j \in 1..Len(seeds) : \E k \in 1..Len(seeds) :
          /\ j # k
          /\ \E ed \in StoredEdges : \E fd \in StoredEdges :
                /\ ed.src = seeds[j][1]
                /\ fd.src = seeds[k][1]
                /\ ed.dst = fd.dst
                /\ ed.weight >= params.cluster.edge_min
                /\ fd.weight >= params.cluster.edge_min
    /\ \E id \in NodeIds(g) :
          /\ node_type(g, id) = CONCEPT
          /\ \A k \in 1..Len(seeds) : seeds[k][1] # id

====
